---- MODULE Spec2Model ----
(***************************************************************************)
(* Per-organization ticket queue engine of navbatuz (the org_state /        *)
(* tickets server, src/unnamed/part_004 lines 85-814).                      *)
(*                                                                          *)
(* The committed PostgreSQL rows are the variables org_state and tickets.   *)
(* Every request handler runs on a connection p; a handler that awaits      *)
(* several statements is split at the statements where another connection   *)
(* can interleave.  Row locks (SELECT ... FOR UPDATE, UPDATE) are held      *)
(* until COMMIT or ROLLBACK; writes of an open transaction are buffered in  *)
(* the connection's record and applied at COMMIT (READ COMMITTED).          *)
(***************************************************************************)
EXTENDS Integers, Sequences, FiniteSets, TLC

\* ---------------------------------------------------------------- bounds
NumProcs == 2
MaxTickets == 3
\* tickets and highest pointer of the stored queues the read paths start from
ReadTickets == 2
MaxCurrent == 6
\* served tickets of the histories the estimator is run on
MaxServed == 7
\* single-queue server: highest ticket id, requests per connection
MaxQueue == 3
MaxRequests == 2

\* ------------------------------------------------------- program constants
MISSED_DIFF == 5
DefaultNextNumber == 1
DefaultCurrentNumber == 0
\* computeAvgServiceSec: LIMIT 6, times.length < 3, d > 5 && d < 21600,
\* diffsSec.length >= 4, diffsSec.length < 3, / 1000; etaMinutes: / 60
SERVED_LIMIT == 6
MIN_TIMES == 3
MIN_DIFF_SEC == 5
MAX_DIFF_SEC == 21600
MAX_DIFFS == 4
MIN_DIFFS == 3
MS_PER_SEC == 1000
SEC_PER_MIN == 60
\* null (avgServiceSec, etaMinutes, served_at)
Null == -1

Procs == 1..NumProcs
NoProc == 0

\* orgIds a request can carry; GeoOrgs are the ones geo.json lists.
GeoOrgs == {"A", "B"}
OrgIds == GeoOrgs \cup {"X"}
\* orgIds the requests of the main specification carry ("": missing)
MainOrgs == {"A", "X", ""}

Statuses == {"waiting", "missed", "served", "cancelled"}

VARIABLES
    org_state,   \* table org_state: org_id -> row (exists = FALSE: no row)
    tickets,     \* table tickets, in insertion order; the id is the index
    orgLock,     \* row lock (or uncommitted insert) on org_state[org]
    tktLock,     \* row lock on tickets[id]
    proc,        \* per connection: position in its handler and its locals
    resp         \* the response sent by the last step (NoResp: none sent)

vars == <<org_state, tickets, orgLock, tktLock, proc, resp>>

\* ----------------------------------------------------------------- helpers
Max(a, b) == IF a >= b THEN a ELSE b
Min(a, b) == IF a <= b THEN a ELSE b

\* orgIds and ticket numbers a request body can carry ("" / 0: missing)
ReqNumbers == 0..MaxTickets
ReqTicketIds == 0..MaxTickets

NoRow == [exists |-> FALSE, next_number |-> DefaultNextNumber,
          current_number |-> DefaultCurrentNumber]

\* the JSON body of a response (code 0: no response yet)
NoResp == [op |-> "", code |-> 0, ok |-> FALSE, msg |-> "", number |-> 0,
           currentNumber |-> 0, nowServing |-> 0, lastNumber |-> 0,
           status |-> "", cancelled |-> FALSE]

R(op, code, ok, msg) ==
    [NoResp EXCEPT !.op = op, !.code = code, !.ok = ok, !.msg = msg]

\* a free connection; the locals of a handler live in the other fields
Idle == [pc |-> "idle", org |-> "", tids |-> {}, number |-> 0,
         currentNumber |-> 0, nextNumber |-> 0, inc |-> FALSE]

TicketIds == 1..Len(tickets)

\* tickets of one organization
OrgTickets(o) == {i \in TicketIds : tickets[i].org_id = o}

\* highest ticket number issued for an organization, 0 when none
MaxIssued(o) ==
    IF OrgTickets(o) = {} THEN 0
    ELSE CHOOSE n \in {tickets[i].number : i \in OrgTickets(o)} :
            \A i \in OrgTickets(o) : tickets[i].number <= n

\* safeInt(st.rows[0]?.next_number, 1), safeInt(st.rows[0]?.current_number, 0)
RowNext(o) == IF org_state[o].exists THEN org_state[o].next_number
              ELSE DefaultNextNumber
RowCurrent(o) == IF org_state[o].exists THEN org_state[o].current_number
                 ELSE DefaultCurrentNumber

\* mutant: every non-empty orgId is accepted.
validateOrgId_NonEmpty(o) == o # ""

\* validateOrgId: the orgId is a non-empty string that geo.json lists
validateOrgId(o) == o \in GeoOrgs

TxnPcs == {"take_select", "take_commit", "srv_select", "srv_commit",
           "nxt_begin", "nxt_update", "nxt_commit"}

\* transactions that have begun and not yet committed or rolled back
InTxn(p) == proc[p].pc \in TxnPcs

\* number of /api/take transactions that have not committed their ticket
PendingTakes == Cardinality({p \in Procs : proc[p].pc = "take_select"
                                           \/ proc[p].pc = "take_commit"})

\* COMMIT / ROLLBACK release every row lock the connection holds
ReleaseOrg(p) == [o \in OrgIds |-> IF orgLock[o] = p THEN NoProc ELSE orgLock[o]]
ReleaseTkt(p) == [i \in 1..MaxTickets |-> IF tktLock[i] = p THEN NoProc ELSE tktLock[i]]

\* SELECT ... FOR UPDATE / UPDATE on the org_state row can proceed
OrgRowFree(p, o) == orgLock[o] \in {NoProc, p}

\* an UPDATE of these ticket rows can proceed
TktRowsFree(p, ids) == \A i \in ids : tktLock[i] \in {NoProc, p}

\* rows of UPDATE tickets ... WHERE org_id=$1 AND number=$2
\*                              AND status IN ('waiting','missed')
PendingRows(o, n) == {i \in OrgTickets(o) : /\ tickets[i].number = n
                                            /\ tickets[i].status \in {"waiting", "missed"}}

SetStatus(tk, ids, st, stamp) ==
    [i \in DOMAIN tk |->
        IF i \in ids
          THEN [tk[i] EXCEPT !.status = st,
                             !.served_at = IF stamp THEN TRUE ELSE tk[i].served_at]
          ELSE tk[i]]

\* mutant: the missed window is diff < 5.
autoUpdate_StrictThreshold(status, number, nowServing) ==
    LET diff == nowServing - number IN
    IF number = 0 \/ diff <= 0 THEN status
    ELSE IF diff < MISSED_DIFF
           THEN (IF status = "waiting" THEN "missed" ELSE status)
           ELSE (IF status \in {"waiting", "missed"} THEN "cancelled" ELSE status)

\* mutant: inside the missed window a missed ticket is cancelled.
autoUpdate_Escalating(status, number, nowServing) ==
    LET diff == nowServing - number IN
    IF number = 0 \/ diff <= 0 THEN status
    ELSE IF diff <= MISSED_DIFF
           THEN (IF status = "waiting" THEN "missed"
                 ELSE IF status = "missed" THEN "cancelled" ELSE status)
           ELSE (IF status \in {"waiting", "missed"} THEN "cancelled" ELSE status)

\* mutant: the UPDATE statements have no status guard.
autoUpdate_Unguarded(status, number, nowServing) ==
    LET diff == nowServing - number IN
    IF number = 0 \/ diff <= 0 THEN status
    ELSE IF diff <= MISSED_DIFF THEN "missed" ELSE "cancelled"

\* autoUpdateTicketStatusIfNeeded: the status the row has after the call
autoUpdateTicketStatusIfNeeded(status, number, nowServing) ==
    LET diff == nowServing - number IN
    IF number = 0 \/ diff <= 0 THEN status
    ELSE IF diff <= MISSED_DIFF
           THEN (IF status = "waiting" THEN "missed" ELSE status)
           ELSE (IF status \in {"waiting", "missed"} THEN "cancelled" ELSE status)

\* mutant: ON CONFLICT (org_id) DO UPDATE resets the counters of the row.
ensureOrgState_Upsert(o) ==
    [org_state EXCEPT ![o] = [exists |-> TRUE,
                              next_number |-> DefaultNextNumber,
                              current_number |-> DefaultCurrentNumber]]

\* ensureOrgState: INSERT INTO org_state (org_id) ... ON CONFLICT DO NOTHING
ensureOrgState(o) ==
    IF org_state[o].exists THEN org_state
    ELSE [org_state EXCEPT ![o] = [exists |-> TRUE,
                                   next_number |-> DefaultNextNumber,
                                   current_number |-> DefaultCurrentNumber]]

\* ------------------------------------------------------------------- Init
Init ==
    /\ org_state = [o \in OrgIds |-> NoRow]
    /\ tickets = << >>
    /\ orgLock = [o \in OrgIds |-> NoProc]
    /\ tktLock = [i \in 1..MaxTickets |-> NoProc]
    /\ proc = [p \in Procs |-> Idle]
    /\ resp = NoResp

\* ------------------------------------------------------- POST /api/take
\* orgId not in geo.json: 400 before any statement is run.
TakeInvalid(p, o) ==
    /\ proc[p].pc = "idle"
    /\ ~validateOrgId(o)
    /\ resp' = R("take", 400, FALSE, "Noto'g'ri orgId")
    /\ UNCHANGED <<org_state, tickets, orgLock, tktLock, proc>>

\* BEGIN; INSERT INTO org_state (org_id) ... ON CONFLICT DO NOTHING.
\* A missing row is inserted (uncommitted, the key is held until COMMIT);
\* an insert of a key another open transaction has inserted waits.
TakeBegin(p, o) ==
    /\ proc[p].pc = "idle"
    /\ validateOrgId(o)
    /\ Len(tickets) + PendingTakes < MaxTickets
    /\ IF org_state[o].exists
         THEN UNCHANGED orgLock
         ELSE /\ orgLock[o] = NoProc
              /\ orgLock' = [orgLock EXCEPT ![o] = p]
    /\ proc' = [proc EXCEPT ![p] = [Idle EXCEPT !.pc = "take_select", !.org = o]]
    /\ resp' = NoResp
    /\ UNCHANGED <<org_state, tickets, tktLock>>

\* mutant: the counters are selected without FOR UPDATE.
TakeSelect_NoLock(p) ==
    LET o == proc[p].org IN
    /\ proc[p].pc = "take_select"
    /\ proc' = [proc EXCEPT ![p].pc = "take_commit",
                            ![p].nextNumber = RowNext(o),
                            ![p].currentNumber = RowCurrent(o)]
    /\ resp' = NoResp
    /\ UNCHANGED <<org_state, tickets, orgLock, tktLock>>

\* mutant: the counters are protected by a lock on the whole table.
TakeSelect_TableLock(p) ==
    LET o == proc[p].org IN
    /\ proc[p].pc = "take_select"
    /\ \A o2 \in OrgIds : OrgRowFree(p, o2)
    /\ orgLock' = [orgLock EXCEPT ![o] = p]
    /\ proc' = [proc EXCEPT ![p].pc = "take_commit",
                            ![p].nextNumber = RowNext(o),
                            ![p].currentNumber = RowCurrent(o)]
    /\ resp' = NoResp
    /\ UNCHANGED <<org_state, tickets, tktLock>>

\* SELECT next_number, current_number ... FOR UPDATE; INSERT INTO tickets;
\* UPDATE org_state SET next_number = next_number + 1 (both buffered).
TakeSelect(p) ==
    LET o == proc[p].org IN
    /\ proc[p].pc = "take_select"
    /\ OrgRowFree(p, o)
    /\ orgLock' = [orgLock EXCEPT ![o] = p]
    /\ proc' = [proc EXCEPT ![p].pc = "take_commit",
                            ![p].nextNumber = RowNext(o),
                            ![p].currentNumber = RowCurrent(o)]
    /\ resp' = NoResp
    /\ UNCHANGED <<org_state, tickets, tktLock>>

\* mutant: the UPDATE of next_number is missing.
TakeCommit_NoIncrement(p) ==
    LET o == proc[p].org
        n == proc[p].nextNumber
    IN
    /\ proc[p].pc = "take_commit"
    /\ tickets' = Append(tickets, [org_id |-> o, number |-> n,
                                   status |-> "waiting", served_at |-> FALSE])
    /\ org_state' = [org_state EXCEPT ![o] =
                        [exists |-> TRUE,
                         next_number |-> RowNext(o),
                         current_number |-> RowCurrent(o)]]
    /\ orgLock' = ReleaseOrg(p)
    /\ tktLock' = ReleaseTkt(p)
    /\ proc' = [proc EXCEPT ![p] = Idle]
    /\ resp' = [R("take", 200, TRUE, "") EXCEPT
                    !.number = n,
                    !.status = "waiting",
                    !.currentNumber = proc[p].currentNumber,
                    !.nowServing = proc[p].currentNumber + 1,
                    !.lastNumber = n]

\* mutant: lastNumber is computed as the read paths do, from the counter
\* read before the increment.
TakeCommit_LastFromCounter(p) ==
    LET o == proc[p].org
        n == proc[p].nextNumber
    IN
    /\ proc[p].pc = "take_commit"
    /\ tickets' = Append(tickets, [org_id |-> o, number |-> n,
                                   status |-> "waiting", served_at |-> FALSE])
    /\ org_state' = [org_state EXCEPT ![o] =
                        [exists |-> TRUE,
                         next_number |-> RowNext(o) + 1,
                         current_number |-> RowCurrent(o)]]
    /\ orgLock' = ReleaseOrg(p)
    /\ tktLock' = ReleaseTkt(p)
    /\ proc' = [proc EXCEPT ![p] = Idle]
    /\ resp' = [R("take", 200, TRUE, "") EXCEPT
                    !.number = n,
                    !.status = "waiting",
                    !.currentNumber = proc[p].currentNumber,
                    !.nowServing = proc[p].currentNumber + 1,
                    !.lastNumber = Max(0, n - 1)]

\* COMMIT: the ticket row and the incremented counter become visible
\* together; the response carries nowServing and lastNumber.
TakeCommit(p) ==
    LET o == proc[p].org
        n == proc[p].nextNumber
    IN
    /\ proc[p].pc = "take_commit"
    /\ tickets' = Append(tickets, [org_id |-> o, number |-> n,
                                   status |-> "waiting", served_at |-> FALSE])
    /\ org_state' = [org_state EXCEPT ![o] =
                        [exists |-> TRUE,
                         next_number |-> RowNext(o) + 1,
                         current_number |-> RowCurrent(o)]]
    /\ orgLock' = ReleaseOrg(p)
    /\ tktLock' = ReleaseTkt(p)
    /\ proc' = [proc EXCEPT ![p] = Idle]
    /\ resp' = [R("take", 200, TRUE, "") EXCEPT
                    !.number = n,
                    !.status = "waiting",
                    !.currentNumber = proc[p].currentNumber,
                    !.nowServing = proc[p].currentNumber + 1,
                    !.lastNumber = n]

\* ------------------------------------------------ POST /api/ticket/served
ServedNoId(p, tid) ==
    /\ proc[p].pc = "idle"
    /\ tid = 0
    /\ resp' = R("served", 400, FALSE, "ticketId kerak")
    /\ UNCHANGED <<org_state, tickets, orgLock, tktLock, proc>>

\* BEGIN; SELECT ... FROM tickets WHERE id=$1 FOR UPDATE finds no row: ROLLBACK.
ServedNotFound(p, tid) ==
    /\ proc[p].pc = "idle"
    /\ tid # 0
    /\ tid \notin TicketIds
    /\ resp' = R("served", 404, FALSE, "Ticket topilmadi")
    /\ UNCHANGED <<org_state, tickets, orgLock, tktLock, proc>>

\* the locked row is already served: COMMIT, nothing written.
ServedAlready(p, tid) ==
    /\ proc[p].pc = "idle"
    /\ tid \in TicketIds
    /\ TktRowsFree(p, {tid})
    /\ tickets[tid].status = "served"
    /\ resp' = R("served", 200, TRUE, "Already served")
    /\ UNCHANGED <<org_state, tickets, orgLock, tktLock, proc>>

\* mutant: the ticket is selected without FOR UPDATE.
ServedBegin_NoLock(p, tid) ==
    /\ proc[p].pc = "idle"
    /\ tid \in TicketIds
    /\ tickets[tid].status # "served"
    /\ proc' = [proc EXCEPT ![p] = [Idle EXCEPT !.pc = "srv_select",
                                               !.org = tickets[tid].org_id,
                                               !.tids = {tid},
                                               !.number = tickets[tid].number]]
    /\ resp' = NoResp
    /\ UNCHANGED <<org_state, tickets, orgLock, tktLock>>

\* the row is locked and UPDATE tickets SET status='served', served_at=now()
\* WHERE id=$1 is buffered; only status = 'served' is tested before it.
ServedBegin(p, tid) ==
    /\ proc[p].pc = "idle"
    /\ tid \in TicketIds
    /\ TktRowsFree(p, {tid})
    /\ tickets[tid].status # "served"
    /\ tktLock' = [tktLock EXCEPT ![tid] = p]
    /\ proc' = [proc EXCEPT ![p] = [Idle EXCEPT !.pc = "srv_select",
                                               !.org = tickets[tid].org_id,
                                               !.tids = {tid},
                                               !.number = tickets[tid].number]]
    /\ resp' = NoResp
    /\ UNCHANGED <<org_state, tickets, orgLock>>

\* mutant: the counters are selected without FOR UPDATE.
ServedSelect_NoLock(p) ==
    LET o == proc[p].org IN
    /\ proc[p].pc = "srv_select"
    /\ proc' = [proc EXCEPT ![p].pc = "srv_commit",
                            ![p].currentNumber = RowCurrent(o),
                            ![p].nextNumber = RowNext(o),
                            ![p].inc = (proc[p].number = RowCurrent(o) + 1)]
    /\ resp' = NoResp
    /\ UNCHANGED <<org_state, tickets, orgLock, tktLock>>

\* SELECT current_number, next_number FROM org_state ... FOR UPDATE, then
\* UPDATE org_state SET current_number=current_number+1 when the ticket is
\* the one now being served.
ServedSelect(p) ==
    LET o == proc[p].org IN
    /\ proc[p].pc = "srv_select"
    /\ OrgRowFree(p, o)
    /\ orgLock' = IF org_state[o].exists THEN [orgLock EXCEPT ![o] = p] ELSE orgLock
    /\ proc' = [proc EXCEPT ![p].pc = "srv_commit",
                            ![p].currentNumber = RowCurrent(o),
                            ![p].nextNumber = RowNext(o),
                            ![p].inc = (proc[p].number = RowCurrent(o) + 1)]
    /\ resp' = NoResp
    /\ UNCHANGED <<org_state, tickets, tktLock>>

\* mutant: current_number is incremented whatever the ticket's number is.
ServedCommit_AlwaysIncrement(p) ==
    LET o == proc[p].org
        c == proc[p].currentNumber + 1
    IN
    /\ proc[p].pc = "srv_commit"
    /\ tickets' = SetStatus(tickets, proc[p].tids, "served", TRUE)
    /\ org_state' = IF org_state[o].exists
                      THEN [org_state EXCEPT ![o].current_number = @ + 1]
                      ELSE org_state
    /\ orgLock' = ReleaseOrg(p)
    /\ tktLock' = ReleaseTkt(p)
    /\ proc' = [proc EXCEPT ![p] = Idle]
    /\ resp' = [R("served", 200, TRUE, "served") EXCEPT
                    !.currentNumber = c,
                    !.nowServing = c + 1,
                    !.lastNumber = Max(0, proc[p].nextNumber - 1)]

\* mutant: the pointer is set to the number of the ticket marked served.
ServedCommit_SetPointer(p) ==
    LET o == proc[p].org
        c == proc[p].number
    IN
    /\ proc[p].pc = "srv_commit"
    /\ tickets' = SetStatus(tickets, proc[p].tids, "served", TRUE)
    /\ org_state' = [org_state EXCEPT ![o].current_number = c]
    /\ orgLock' = ReleaseOrg(p)
    /\ tktLock' = ReleaseTkt(p)
    /\ proc' = [proc EXCEPT ![p] = Idle]
    /\ resp' = [R("served", 200, TRUE, "served") EXCEPT
                    !.currentNumber = c,
                    !.nowServing = c + 1,
                    !.lastNumber = Max(0, proc[p].nextNumber - 1)]

ServedCommit(p) ==
    LET o == proc[p].org
        c == IF proc[p].inc THEN proc[p].currentNumber + 1 ELSE proc[p].currentNumber
    IN
    /\ proc[p].pc = "srv_commit"
    /\ tickets' = SetStatus(tickets, proc[p].tids, "served", TRUE)
    /\ org_state' = IF proc[p].inc /\ org_state[o].exists
                      THEN [org_state EXCEPT ![o].current_number = @ + 1]
                      ELSE org_state
    /\ orgLock' = ReleaseOrg(p)
    /\ tktLock' = ReleaseTkt(p)
    /\ proc' = [proc EXCEPT ![p] = Idle]
    /\ resp' = [R("served", 200, TRUE, "served") EXCEPT
                    !.currentNumber = c,
                    !.nowServing = c + 1,
                    !.lastNumber = Max(0, proc[p].nextNumber - 1)]

\* --------------------------------------------------- POST /api/admin/next
AdminNextNoOrg(p, o) ==
    /\ proc[p].pc = "idle"
    /\ o = ""
    /\ resp' = R("next", 400, FALSE, "orgId kerak")
    /\ UNCHANGED <<org_state, tickets, orgLock, tktLock, proc>>

\* the request is accepted: pool.connect(), BEGIN.
AdminNextRequest(p, o) ==
    /\ proc[p].pc = "idle"
    /\ o # ""
    /\ proc' = [proc EXCEPT ![p] = [Idle EXCEPT !.pc = "nxt_begin", !.org = o]]
    /\ resp' = NoResp
    /\ UNCHANGED <<org_state, tickets, orgLock, tktLock>>

\* SELECT ... FOR UPDATE returns no row (an uncommitted insert is not seen).
AdminNextNoRow(p) ==
    LET o == proc[p].org IN
    /\ proc[p].pc = "nxt_begin"
    /\ ~org_state[o].exists
    /\ proc' = [proc EXCEPT ![p] = Idle]
    /\ resp' = R("next", 404, FALSE, "org_state topilmadi")
    /\ UNCHANGED <<org_state, tickets, orgLock, tktLock>>

\* mutant: the pointer is incremented whether or not a ticket is pending.
AdminNextEmpty_Increment(p) ==
    LET o == proc[p].org IN
    /\ proc[p].pc = "nxt_begin"
    /\ org_state[o].exists
    /\ OrgRowFree(p, o)
    /\ ~(RowCurrent(o) + 1 < RowNext(o))
    /\ org_state' = [org_state EXCEPT ![o].current_number = @ + 1]
    /\ proc' = [proc EXCEPT ![p] = Idle]
    /\ resp' = [R("next", 200, TRUE, "") EXCEPT
                    !.currentNumber = RowCurrent(o) + 1,
                    !.nowServing = RowCurrent(o) + 2,
                    !.lastNumber = Max(0, RowNext(o) - 1)]
    /\ UNCHANGED <<tickets, orgLock, tktLock>>

\* servingNow >= nextNumber: COMMIT and answer ok with "Navbat bo'sh".
AdminNextEmpty(p) ==
    LET o == proc[p].org IN
    /\ proc[p].pc = "nxt_begin"
    /\ org_state[o].exists
    /\ OrgRowFree(p, o)
    /\ ~(RowCurrent(o) + 1 < RowNext(o))
    /\ proc' = [proc EXCEPT ![p] = Idle]
    /\ resp' = [R("next", 200, TRUE, "Navbat bo'sh") EXCEPT
                    !.currentNumber = RowCurrent(o),
                    !.nowServing = RowCurrent(o) + 1,
                    !.lastNumber = Max(0, RowNext(o) - 1)]
    /\ UNCHANGED <<org_state, tickets, orgLock, tktLock>>

\* mutant: the counters are selected without FOR UPDATE.
AdminNextBegin_NoLock(p) ==
    LET o == proc[p].org IN
    /\ proc[p].pc = "nxt_begin"
    /\ org_state[o].exists
    /\ RowCurrent(o) + 1 < RowNext(o)
    /\ proc' = [proc EXCEPT ![p].pc = "nxt_update",
                            ![p].number = RowCurrent(o) + 1,
                            ![p].currentNumber = RowCurrent(o),
                            ![p].nextNumber = RowNext(o)]
    /\ resp' = NoResp
    /\ UNCHANGED <<org_state, tickets, orgLock, tktLock>>

\* mutant: the queue test is servingNow <= nextNumber.
AdminNextBegin_OffByOne(p) ==
    LET o == proc[p].org IN
    /\ proc[p].pc = "nxt_begin"
    /\ org_state[o].exists
    /\ OrgRowFree(p, o)
    /\ RowCurrent(o) + 1 <= RowNext(o)
    /\ orgLock' = [orgLock EXCEPT ![o] = p]
    /\ proc' = [proc EXCEPT ![p].pc = "nxt_update",
                            ![p].number = RowCurrent(o) + 1,
                            ![p].currentNumber = RowCurrent(o),
                            ![p].nextNumber = RowNext(o)]
    /\ resp' = NoResp
    /\ UNCHANGED <<org_state, tickets, tktLock>>

\* servingNow < nextNumber: the counter row stays locked.
AdminNextBegin(p) ==
    LET o == proc[p].org IN
    /\ proc[p].pc = "nxt_begin"
    /\ org_state[o].exists
    /\ OrgRowFree(p, o)
    /\ RowCurrent(o) + 1 < RowNext(o)
    /\ orgLock' = [orgLock EXCEPT ![o] = p]
    /\ proc' = [proc EXCEPT ![p].pc = "nxt_update",
                            ![p].number = RowCurrent(o) + 1,
                            ![p].currentNumber = RowCurrent(o),
                            ![p].nextNumber = RowNext(o)]
    /\ resp' = NoResp
    /\ UNCHANGED <<org_state, tickets, tktLock>>

\* mutant: the UPDATE of the ticket has no status filter.
AdminNextUpdate_AnyStatus(p) ==
    LET rows == {i \in OrgTickets(proc[p].org) : tickets[i].number = proc[p].number} IN
    /\ proc[p].pc = "nxt_update"
    /\ TktRowsFree(p, rows)
    /\ tktLock' = [i \in 1..MaxTickets |-> IF i \in rows THEN p ELSE tktLock[i]]
    /\ proc' = [proc EXCEPT ![p].pc = "nxt_commit", ![p].tids = rows]
    /\ resp' = NoResp
    /\ UNCHANGED <<org_state, tickets, orgLock>>

\* UPDATE tickets SET status='served' WHERE org_id=$1 AND number=$2 AND
\* status IN ('waiting','missed') (waits for a locked matching row), then
\* UPDATE org_state SET current_number = current_number + 1.
AdminNextUpdate(p) ==
    LET rows == PendingRows(proc[p].org, proc[p].number) IN
    /\ proc[p].pc = "nxt_update"
    /\ TktRowsFree(p, rows)
    /\ tktLock' = [i \in 1..MaxTickets |-> IF i \in rows THEN p ELSE tktLock[i]]
    /\ proc' = [proc EXCEPT ![p].pc = "nxt_commit", ![p].tids = rows]
    /\ resp' = NoResp
    /\ UNCHANGED <<org_state, tickets, orgLock>>

\* mutant: the pointer is moved and the ticket at servingNow is not touched.
AdminNextCommit_PointerOnly(p) ==
    LET o == proc[p].org IN
    /\ proc[p].pc = "nxt_commit"
    /\ tickets' = tickets
    /\ org_state' = [org_state EXCEPT ![o].current_number = @ + 1]
    /\ orgLock' = ReleaseOrg(p)
    /\ tktLock' = ReleaseTkt(p)
    /\ proc' = [proc EXCEPT ![p] = Idle]
    /\ resp' = [R("next", 200, TRUE, "") EXCEPT
                    !.currentNumber = org_state[o].current_number + 1,
                    !.nowServing = org_state[o].current_number + 2,
                    !.lastNumber = Max(0, proc[p].nextNumber - 1)]

\* mutant: the UPDATE increments next_number instead of current_number.
AdminNextCommit_WrongColumn(p) ==
    LET o == proc[p].org IN
    /\ proc[p].pc = "nxt_commit"
    /\ tickets' = SetStatus(tickets, proc[p].tids, "served", TRUE)
    /\ org_state' = [org_state EXCEPT ![o].next_number = @ + 1]
    /\ orgLock' = ReleaseOrg(p)
    /\ tktLock' = ReleaseTkt(p)
    /\ proc' = [proc EXCEPT ![p] = Idle]
    /\ resp' = [R("next", 200, TRUE, "") EXCEPT
                    !.currentNumber = org_state[o].current_number + 1,
                    !.nowServing = org_state[o].current_number + 2,
                    !.lastNumber = Max(0, proc[p].nextNumber - 1)]

AdminNextCommit(p) ==
    LET o == proc[p].org IN
    /\ proc[p].pc = "nxt_commit"
    /\ tickets' = SetStatus(tickets, proc[p].tids, "served", TRUE)
    /\ org_state' = [org_state EXCEPT ![o].current_number = @ + 1]
    /\ orgLock' = ReleaseOrg(p)
    /\ tktLock' = ReleaseTkt(p)
    /\ proc' = [proc EXCEPT ![p] = Idle]
    /\ resp' = [R("next", 200, TRUE, "") EXCEPT
                    !.currentNumber = org_state[o].current_number + 1,
                    !.nowServing = org_state[o].current_number + 2,
                    !.lastNumber = Max(0, proc[p].nextNumber - 1)]

\* ------------------------------------------------------- POST /api/cancel
CancelBadRequest(p, o, n) ==
    /\ proc[p].pc = "idle"
    /\ (o = "" \/ n = 0)
    /\ resp' = R("cancel", 400, FALSE, "orgId va number kerak")
    /\ UNCHANGED <<org_state, tickets, orgLock, tktLock, proc>>

\* mutant: the UPDATE has no status filter.
Cancel_AnyStatus(p, o, n) ==
    LET rows == {i \in OrgTickets(o) : tickets[i].number = n} IN
    /\ proc[p].pc = "idle"
    /\ o # ""
    /\ n # 0
    /\ TktRowsFree(p, rows)
    /\ tickets' = SetStatus(tickets, rows, "cancelled", FALSE)
    /\ resp' = [R("cancel", 200, TRUE, "") EXCEPT !.cancelled = (rows # {})]
    /\ UNCHANGED <<org_state, orgLock, tktLock, proc>>

\* mutant: cancelling the last issued ticket gives its number back.
Cancel_ReleaseNumber(p, o, n) ==
    LET rows == PendingRows(o, n) IN
    /\ proc[p].pc = "idle"
    /\ o # ""
    /\ n # 0
    /\ TktRowsFree(p, rows)
    /\ OrgRowFree(p, o)
    /\ tickets' = SetStatus(tickets, rows, "cancelled", FALSE)
    /\ org_state' = IF rows # {} /\ org_state[o].exists /\ n = RowNext(o) - 1
                      THEN [org_state EXCEPT ![o].next_number = n]
                      ELSE org_state
    /\ resp' = [R("cancel", 200, TRUE, "") EXCEPT !.cancelled = (rows # {})]
    /\ UNCHANGED <<orgLock, tktLock, proc>>

\* one autocommit UPDATE ... WHERE status IN ('waiting','missed') RETURNING id
Cancel(p, o, n) ==
    LET rows == PendingRows(o, n) IN
    /\ proc[p].pc = "idle"
    /\ o # ""
    /\ n # 0
    /\ TktRowsFree(p, rows)
    /\ tickets' = SetStatus(tickets, rows, "cancelled", FALSE)
    /\ resp' = [R("cancel", 200, TRUE, "") EXCEPT !.cancelled = (rows # {})]
    /\ UNCHANGED <<org_state, orgLock, tktLock, proc>>

\* --------------------------------------------------- GET /api/ticket/:id
ReadNotFound(p, tid) ==
    /\ proc[p].pc = "idle"
    /\ tid \notin TicketIds
    /\ resp' = R("ticket", 404, FALSE, "Ticket topilmadi")
    /\ UNCHANGED <<org_state, tickets, orgLock, tktLock, proc>>

\* SELECT the ticket; ensureOrgState; SELECT current_number, next_number.
ReadBegin(p, tid) ==
    LET o == tickets[tid].org_id IN
    /\ proc[p].pc = "idle"
    /\ tid \in TicketIds
    /\ org_state[o].exists \/ orgLock[o] = NoProc
    /\ org_state' = ensureOrgState(o)
    /\ proc' = [proc EXCEPT ![p] = [Idle EXCEPT !.pc = "rd_auto",
                                               !.org = o,
                                               !.tids = {tid},
                                               !.number = tickets[tid].number,
                                               !.currentNumber = RowCurrent(o),
                                               !.nextNumber = RowNext(o)]]
    /\ resp' = NoResp
    /\ UNCHANGED <<tickets, orgLock, tktLock>>

\* autoUpdateTicketStatusIfNeeded: one autocommit UPDATE guarded by status
\* (it waits while the row it would change is locked); the ticket is then
\* selected again and returned with the snapshot read before.
ReadAuto(p) ==
    LET tid == CHOOSE i \in proc[p].tids : TRUE
        st == autoUpdateTicketStatusIfNeeded(tickets[tid].status, proc[p].number,
                                             proc[p].currentNumber + 1)
    IN
    /\ proc[p].pc = "rd_auto"
    /\ st # tickets[tid].status => TktRowsFree(p, {tid})
    /\ tickets' = SetStatus(tickets, {tid}, st, FALSE)
    /\ proc' = [proc EXCEPT ![p] = Idle]
    /\ resp' = [R("ticket", 200, TRUE, "") EXCEPT
                    !.number = tickets[tid].number,
                    !.status = st,
                    !.currentNumber = proc[p].currentNumber,
                    !.nowServing = proc[p].currentNumber + 1,
                    !.lastNumber = Max(0, proc[p].nextNumber - 1)]
    /\ UNCHANGED <<org_state, orgLock, tktLock>>

\* ------------------------------------- GET /api/ticket?orgId=..&number=..
QueryNoOrg(p, o) ==
    /\ proc[p].pc = "idle"
    /\ o = ""
    /\ resp' = R("query", 400, FALSE, "orgId kerak")
    /\ UNCHANGED <<org_state, tickets, orgLock, tktLock, proc>>

\* ensureOrgState(orgId); SELECT current_number, next_number; no number
\* asked for: the snapshot alone is returned.
QueryBase(p, o, n) ==
    /\ proc[p].pc = "idle"
    /\ o # ""
    /\ n = 0
    /\ org_state[o].exists \/ orgLock[o] = NoProc
    /\ org_state' = ensureOrgState(o)
    /\ resp' = [R("query", 200, TRUE, "") EXCEPT
                    !.currentNumber = RowCurrent(o),
                    !.nowServing = RowCurrent(o) + 1,
                    !.lastNumber = Max(0, RowNext(o) - 1)]
    /\ UNCHANGED <<tickets, orgLock, tktLock, proc>>

\* ensureOrgState(orgId); SELECT current_number, next_number; a number is
\* asked for.
QueryBegin(p, o, n) ==
    /\ proc[p].pc = "idle"
    /\ o # ""
    /\ n # 0
    /\ org_state[o].exists \/ orgLock[o] = NoProc
    /\ org_state' = ensureOrgState(o)
    /\ proc' = [proc EXCEPT ![p] = [Idle EXCEPT !.pc = "qry_auto",
                                               !.org = o,
                                               !.number = n,
                                               !.currentNumber = RowCurrent(o),
                                               !.nextNumber = RowNext(o)]]
    /\ resp' = NoResp
    /\ UNCHANGED <<tickets, orgLock, tktLock>>

\* rows of SELECT ... WHERE org_id=$1 AND number=$2 ORDER BY created_at DESC LIMIT 1
LatestByNumber(o, n) ==
    LET ids == {i \in OrgTickets(o) : tickets[i].number = n} IN
    IF ids = {} THEN {}
    ELSE {CHOOSE i \in ids : \A j \in ids : j <= i}

\* no ticket has the number: the snapshot alone is returned.
QueryNoTicket(p) ==
    /\ proc[p].pc = "qry_auto"
    /\ LatestByNumber(proc[p].org, proc[p].number) = {}
    /\ proc' = [proc EXCEPT ![p] = Idle]
    /\ resp' = [R("query", 200, TRUE, "") EXCEPT
                    !.currentNumber = proc[p].currentNumber,
                    !.nowServing = proc[p].currentNumber + 1,
                    !.lastNumber = Max(0, proc[p].nextNumber - 1)]
    /\ UNCHANGED <<org_state, tickets, orgLock, tktLock>>

\* the latest ticket of that number is reconciled by
\* autoUpdateTicketStatusIfNeeded, selected again and returned with the
\* snapshot read before.
QueryAuto(p) ==
    LET ids == LatestByNumber(proc[p].org, proc[p].number)
        tid == CHOOSE i \in ids : TRUE
        st == autoUpdateTicketStatusIfNeeded(tickets[tid].status, tickets[tid].number,
                                             proc[p].currentNumber + 1)
    IN
    /\ proc[p].pc = "qry_auto"
    /\ ids # {}
    /\ st # tickets[tid].status => TktRowsFree(p, {tid})
    /\ tickets' = SetStatus(tickets, {tid}, st, FALSE)
    /\ proc' = [proc EXCEPT ![p] = Idle]
    /\ resp' = [R("query", 200, TRUE, "") EXCEPT
                    !.number = tickets[tid].number,
                    !.status = st,
                    !.currentNumber = proc[p].currentNumber,
                    !.nowServing = proc[p].currentNumber + 1,
                    !.lastNumber = Max(0, proc[p].nextNumber - 1)]
    /\ UNCHANGED <<org_state, orgLock, tktLock>>

\* ---------------------------------------- failure of an open transaction
\* mutant: the UPDATE of next_number of a failed /api/take survives the
\* failure (it was run outside the transaction).
Abort_KeepsIncrement(p) ==
    /\ InTxn(p)
    /\ org_state' = IF proc[p].pc = "take_commit"
                      THEN [org_state EXCEPT ![proc[p].org] =
                               [exists |-> TRUE,
                                next_number |-> RowNext(proc[p].org) + 1,
                                current_number |-> RowCurrent(proc[p].org)]]
                      ELSE org_state
    /\ orgLock' = ReleaseOrg(p)
    /\ tktLock' = ReleaseTkt(p)
    /\ proc' = [proc EXCEPT ![p] = Idle]
    /\ resp' = R("txn", 500, FALSE, "error")
    /\ UNCHANGED tickets

\* a statement of the transaction throws: catch -> ROLLBACK -> 500.
Abort(p) ==
    /\ InTxn(p)
    /\ orgLock' = ReleaseOrg(p)
    /\ tktLock' = ReleaseTkt(p)
    /\ proc' = [proc EXCEPT ![p] = Idle]
    /\ resp' = R("txn", 500, FALSE, "error")
    /\ UNCHANGED <<org_state, tickets>>

Next ==
    \E p \in Procs :
        \/ \E o \in MainOrgs : TakeInvalid(p, o)
        \/ \E o \in MainOrgs : TakeBegin(p, o)
        \/ TakeSelect(p)
        \/ TakeCommit(p)
        \/ \E tid \in ReqTicketIds : ServedNoId(p, tid)
        \/ \E tid \in ReqTicketIds : ServedNotFound(p, tid)
        \/ \E tid \in ReqTicketIds : ServedAlready(p, tid)
        \/ \E tid \in ReqTicketIds : ServedBegin(p, tid)
        \/ ServedSelect(p)
        \/ ServedCommit(p)
        \/ \E o \in MainOrgs : AdminNextNoOrg(p, o)
        \/ \E o \in MainOrgs : AdminNextRequest(p, o)
        \/ AdminNextNoRow(p)
        \/ AdminNextEmpty(p)
        \/ AdminNextBegin(p)
        \/ AdminNextUpdate(p)
        \/ AdminNextCommit(p)
        \/ \E o \in MainOrgs, n \in ReqNumbers : CancelBadRequest(p, o, n)
        \/ \E o \in MainOrgs, n \in ReqNumbers : Cancel(p, o, n)
        \/ \E tid \in ReqTicketIds : ReadNotFound(p, tid)
        \/ \E tid \in ReqTicketIds : ReadBegin(p, tid)
        \/ ReadAuto(p)
        \/ Abort(p)

Spec == Init /\ [][Next]_vars

\* ------------------------------------- concurrent /api/admin/next calls
\* One /api/admin/next request per connection is in flight for organization
\* "A", whose tickets 1..n were issued and are waiting, cancelled or (from
\* the second on) marked served out of turn; nothing was advanced yet.  With
\* no ticket the counter row may be missing or have been created by a read.
InitAdv ==
    \E n \in 0..MaxTickets :
    \E st \in [1..n -> {"waiting", "cancelled", "served"}] :
    \E ex \in BOOLEAN :
        /\ n >= 1 => (ex /\ st[1] # "served")
        /\ tickets = [i \in 1..n |-> [org_id |-> "A", number |-> i,
                                      status |-> st[i],
                                      served_at |-> (st[i] = "served")]]
        /\ org_state = [o \in OrgIds |->
                           IF o = "A" /\ ex
                             THEN [exists |-> TRUE, next_number |-> n + 1,
                                   current_number |-> DefaultCurrentNumber]
                             ELSE NoRow]
        /\ orgLock = [o \in OrgIds |-> NoProc]
        /\ tktLock = [i \in 1..MaxTickets |-> NoProc]
        /\ proc = [p \in Procs |-> [Idle EXCEPT !.pc = "nxt_begin", !.org = "A"]]
        /\ resp = NoResp

NextAdv ==
    \E p \in Procs :
        \/ AdminNextNoRow(p)
        \/ AdminNextEmpty(p)
        \/ AdminNextBegin(p)
        \/ AdminNextUpdate(p)
        \/ AdminNextCommit(p)

SpecAdv == InitAdv /\ [][NextAdv]_vars

\* --------------------------------------------- two organizations
\* Requests for the two listed organizations run side by side, from the
\* empty tables.
NextOrgs ==
    \E p \in Procs :
        \/ \E o \in GeoOrgs : TakeBegin(p, o)
        \/ TakeSelect(p)
        \/ TakeCommit(p)
        \/ \E tid \in ReqTicketIds : ServedBegin(p, tid)
        \/ ServedSelect(p)
        \/ ServedCommit(p)
        \/ \E o \in GeoOrgs : AdminNextRequest(p, o)
        \/ AdminNextNoRow(p)
        \/ AdminNextEmpty(p)
        \/ AdminNextBegin(p)
        \/ AdminNextUpdate(p)
        \/ AdminNextCommit(p)
        \/ \E o \in GeoOrgs, n \in ReqNumbers : Cancel(p, o, n)
        \/ Abort(p)

SpecOrgs == Init /\ [][NextOrgs]_vars

\* ------------------------------------------ reads on a stored queue
\* The tables hold organization "A" as an earlier run left it: tickets 1..n
\* waiting, missed or cancelled, and a pointer that the earlier server's
\* /api/admin/next (UPDATE org_state SET current_number = current_number + 1,
\* no ticket touched) may have moved past tickets still waiting.  Tickets
\* are read, cancelled and marked served; none is issued.
InitRead ==
    \E n \in 1..ReadTickets :
    \E st \in [1..n -> {"waiting", "missed", "cancelled"}] :
    \E c \in 0..MaxCurrent :
        /\ tickets = [i \in 1..n |-> [org_id |-> "A", number |-> i,
                                      status |-> st[i], served_at |-> FALSE]]
        /\ org_state = [o \in OrgIds |->
                           IF o = "A"
                             THEN [exists |-> TRUE, next_number |-> n + 1,
                                   current_number |-> c]
                             ELSE NoRow]
        /\ orgLock = [o \in OrgIds |-> NoProc]
        /\ tktLock = [i \in 1..MaxTickets |-> NoProc]
        /\ proc = [p \in Procs |-> Idle]
        /\ resp = NoResp

\* orgIds the requests of the read specification carry
ReadOrgs == {"A", ""}

NextRead ==
    \E p \in Procs :
        \/ \E tid \in ReqTicketIds : ReadNotFound(p, tid)
        \/ \E tid \in ReqTicketIds : ReadBegin(p, tid)
        \/ ReadAuto(p)
        \/ \E o \in ReadOrgs : QueryNoOrg(p, o)
        \/ \E o \in ReadOrgs, n \in ReqNumbers : QueryBase(p, o, n)
        \/ \E o \in ReadOrgs, n \in ReqNumbers : QueryBegin(p, o, n)
        \/ QueryNoTicket(p)
        \/ QueryAuto(p)
        \/ \E o \in ReadOrgs, n \in ReqNumbers : CancelBadRequest(p, o, n)
        \/ \E o \in ReadOrgs, n \in ReqNumbers : Cancel(p, o, n)
        \/ \E tid \in ReqTicketIds : ServedAlready(p, tid)
        \/ \E tid \in ReqTicketIds : ServedBegin(p, tid)
        \/ ServedSelect(p)
        \/ ServedCommit(p)
        \/ Abort(p)

SpecRead == InitRead /\ [][NextRead]_vars

\* ------------------------------------------------- estimator and ETA
\* the one element of a singleton
Only(S) == CHOOSE x \in S : TRUE

\* Math.round(a / b) for b > 0: the nearest integer, halves upwards
RoundDiv(a, b) == (2 * a + b) \div (2 * b)

\* rows of SELECT served_at ... WHERE org_id=$1 AND status='served' AND
\* served_at IS NOT NULL
ServedRows(o) == {i \in OrgTickets(o) : /\ tickets[i].status = "served"
                                        /\ tickets[i].served_at # Null}

\* ... ORDER BY served_at DESC LIMIT k, as new Date(served_at).getTime():
\* the row at position r has r - 1 rows before it (equal times: any order,
\* here the later row first)
NewestFirst(ids, k) ==
    LET before(i) == {j \in ids : \/ tickets[j].served_at > tickets[i].served_at
                                  \/ /\ tickets[j].served_at = tickets[i].served_at
                                     /\ j > i}
    IN [r \in 1..Min(k, Cardinality(ids)) |->
           tickets[CHOOSE i \in ids : Cardinality(before(i)) = r - 1].served_at]

\* mutant: the loop has no break.
DiffsSec_NoBreak(times) ==
    LET n == Max(0, Len(times) - 1)
        d(i) == RoundDiv(times[i] - times[i + 1], MS_PER_SEC)
        push(a, x) == IF x > MIN_DIFF_SEC /\ x < MAX_DIFF_SEC
                        THEN Append(a, x) ELSE a
        acc[i \in 0..n] ==
            IF i = 0 THEN << >>
            ELSE Only({push(a, x) : a \in {acc[i - 1]}, x \in {d(i)}})
    IN acc[n]

\* for (i = 0; i < times.length - 1; i++) { d = Math.round(...);
\*   if (d > 5 && d < 21600) push; if (diffsSec.length >= 4) break; }
\* acc[i] is diffsSec after i rounds (after the break nothing is pushed)
DiffsSec(times) ==
    LET n == Max(0, Len(times) - 1)
        d(i) == RoundDiv(times[i] - times[i + 1], MS_PER_SEC)
        push(a, x) == IF Len(a) < MAX_DIFFS /\ x > MIN_DIFF_SEC /\ x < MAX_DIFF_SEC
                        THEN Append(a, x) ELSE a
        acc[i \in 0..n] ==
            IF i = 0 THEN << >>
            ELSE Only({push(a, x) : a \in {acc[i - 1]}, x \in {d(i)}})
    IN acc[n]

\* diffsSec.reduce((a, b) => a + b, 0)
SeqSum(q) ==
    LET sum[i \in 0..Len(q)] == IF i = 0 THEN 0 ELSE sum[i - 1] + q[i]
    IN sum[Len(q)]

\* Math.round(sum / length) of at least minDiffs differences, else null
MeanOrNull(diffsSec, minDiffs) ==
    IF Len(diffsSec) < minDiffs THEN Null
    ELSE RoundDiv(SeqSum(diffsSec), Len(diffsSec))

\* mutant: two differences are enough.
computeAvg_TwoDiffs(o) ==
    Only({IF Len(times) < MIN_TIMES THEN Null
          ELSE Only({MeanOrNull(diffsSec, MIN_DIFFS - 1) :
                        diffsSec \in {DiffsSec(times)}}) :
             times \in {NewestFirst(ServedRows(o), SERVED_LIMIT)}})

\* mutant: differences of three hours or more are implausible.
computeAvg_ThreeHours(o) ==
    Only({IF Len(times) < MIN_TIMES THEN Null
          ELSE Only({MeanOrNull(SelectSeq(diffsSec, LAMBDA d : d < 3 * 3600),
                                MIN_DIFFS) :
                        diffsSec \in {DiffsSec(times)}}) :
             times \in {NewestFirst(ServedRows(o), SERVED_LIMIT)}})

\* mutant: the loop has no break.
computeAvg_NoBreak(o) ==
    Only({IF Len(times) < MIN_TIMES THEN Null
          ELSE Only({MeanOrNull(diffsSec, MIN_DIFFS) :
                        diffsSec \in {DiffsSec_NoBreak(times)}}) :
             times \in {NewestFirst(ServedRows(o), SERVED_LIMIT)}})

\* times = the served_at values read; diffsSec = the plausible differences;
\* null with fewer than 3 times or fewer than 3 differences
computeAvgServiceSec(o) ==
    Only({IF Len(times) < MIN_TIMES THEN Null
          ELSE Only({MeanOrNull(diffsSec, MIN_DIFFS) :
                        diffsSec \in {DiffsSec(times)}}) :
             times \in {NewestFirst(ServedRows(o), SERVED_LIMIT)}})

\* mutant: an unknown average gives 0 minutes.
etaMinutes_ZeroWhenUnknown(remaining, avgServiceSec) ==
    IF avgServiceSec = Null \/ avgServiceSec = 0 THEN 0
    ELSE RoundDiv(remaining * avgServiceSec, SEC_PER_MIN)

\* avgServiceSec ? Math.round((remaining * avgServiceSec) / 60) : null
etaMinutes(remaining, avgServiceSec) ==
    IF avgServiceSec = Null \/ avgServiceSec = 0 THEN Null
    ELSE RoundDiv(remaining * avgServiceSec, SEC_PER_MIN)

\* the response with its avgServiceSec, remaining and etaMinutes fields
EtaResp(r, number, avgServiceSec) ==
    [op |-> r.op, code |-> r.code, ok |-> r.ok, msg |-> r.msg,
     number |-> r.number, currentNumber |-> r.currentNumber,
     nowServing |-> r.nowServing, lastNumber |-> r.lastNumber,
     status |-> r.status, cancelled |-> r.cancelled,
     avgServiceSec |-> avgServiceSec,
     remaining |-> Max(0, number - r.nowServing),
     etaMinutes |-> etaMinutes(Max(0, number - r.nowServing), avgServiceSec)]

\* POST /api/take with no other request in flight, with the fields of its
\* response that depend on the served history
TakeEta(o) ==
    LET n == RowNext(o)
        c == RowCurrent(o)
    IN
    /\ \A q \in Procs : proc[q].pc = "idle"
    /\ validateOrgId(o)
    /\ Cardinality({i \in OrgTickets(o) : tickets[i].status = "waiting"}) < 2
    /\ tickets' = Append(tickets, [org_id |-> o, number |-> n,
                                   status |-> "waiting", served_at |-> Null])
    /\ org_state' = [org_state EXCEPT ![o] =
                        [exists |-> TRUE, next_number |-> n + 1,
                         current_number |-> c]]
    /\ resp' = EtaResp([R("take", 200, TRUE, "") EXCEPT
                            !.number = n,
                            !.status = "waiting",
                            !.currentNumber = c,
                            !.nowServing = c + 1,
                            !.lastNumber = n],
                       n, computeAvgServiceSec(o)')
    /\ UNCHANGED <<orgLock, tktLock, proc>>

\* GET /api/ticket/:id with no other request in flight, with the fields of
\* its response that depend on the served history; the tickets read are the
\* last one served and the ones after it
TicketEta(tid) ==
    LET o == tickets[tid].org_id
        c == RowCurrent(o)
        st == autoUpdateTicketStatusIfNeeded(tickets[tid].status,
                                             tickets[tid].number, c + 1)
    IN
    /\ \A q \in Procs : proc[q].pc = "idle"
    /\ tid \in TicketIds
    /\ tickets[tid].number >= c
    /\ org_state' = ensureOrgState(o)
    /\ tickets' = [tickets EXCEPT ![tid].status = st]
    /\ resp' = EtaResp([R("ticket", 200, TRUE, "") EXCEPT
                            !.number = tickets[tid].number,
                            !.status = st,
                            !.currentNumber = c,
                            !.nowServing = c + 1,
                            !.lastNumber = Max(0, RowNext(o) - 1)],
                       tickets[tid].number, computeAvgServiceSec(o))
    /\ UNCHANGED <<orgLock, tktLock, proc>>

\* differences, in ms, between consecutive served_at values of a history:
\* 5 s, 42 s, 3 h and half a second less than 6 h
DiffChoices == {5000, 42000, 10800000, 21599500}

\* the intervals of scenario E, in ms
ScenarioDiffs == {40000, 45000, 42000, 10800000}

\* histories: any differences of DiffChoices, or 3 or 4 distinct intervals
\* of scenario E in any order
Histories ==
    UNION {[1..m -> DiffChoices] : m \in 0..(MaxServed - 1)}
    \cup {h \in UNION {[1..m -> ScenarioDiffs] : m \in 3..4} :
             \A i, j \in DOMAIN h : i # j => h[i] # h[j]}

\* served_at of the i-th served ticket of history h (the first at time 0)
RECURSIVE ServedAt(_, _)
ServedAt(h, i) == IF i = 1 THEN 0 ELSE ServedAt(h, i - 1) + h[i - 1]

\* Organization "A" has no ticket, or Len(h) + 1 tickets served in number
\* order at the times of a history h, the pointer on the last of them.
InitEst ==
    \E h \in Histories :
    \E k \in {0, Len(h) + 1} :
        /\ k = 0 => h = << >>
        /\ tickets = [i \in 1..k |-> [org_id |-> "A", number |-> i,
                                      status |-> "served",
                                      served_at |-> ServedAt(h, i)]]
        /\ org_state = [o \in OrgIds |->
                           IF o = "A" /\ k > 0
                             THEN [exists |-> TRUE, next_number |-> k + 1,
                                   current_number |-> k]
                             ELSE NoRow]
        /\ orgLock = [o \in OrgIds |-> NoProc]
        /\ tktLock = [i \in 1..MaxTickets |-> NoProc]
        /\ proc = [p \in Procs |-> Idle]
        /\ resp = NoResp

NextEst ==
    \/ \E o \in MainOrgs : TakeEta(o)
    \/ \E tid \in 1..(MaxServed + 2) : TicketEta(tid)

SpecEst == InitEst /\ [][NextEst]_vars

\* ------------------------------------------ reads on a fresh server
\* The tables are empty; tickets are issued and the pointer is advanced for
\* the listed organization "A", and snapshots and tickets are read for "A"
\* and for "X", an orgId geo.json does not list and no ticket is issued for.
NextSnap ==
    \E p \in Procs :
        \/ \E o \in MainOrgs : TakeInvalid(p, o)
        \/ \E o \in MainOrgs : TakeBegin(p, o)
        \/ TakeSelect(p)
        \/ TakeCommit(p)
        \/ \E o \in MainOrgs : AdminNextNoOrg(p, o)
        \/ \E o \in MainOrgs : AdminNextRequest(p, o)
        \/ AdminNextNoRow(p)
        \/ AdminNextEmpty(p)
        \/ AdminNextBegin(p)
        \/ AdminNextUpdate(p)
        \/ AdminNextCommit(p)
        \/ \E tid \in ReqTicketIds : ReadNotFound(p, tid)
        \/ \E tid \in ReqTicketIds : ReadBegin(p, tid)
        \/ ReadAuto(p)
        \/ \E o \in MainOrgs : QueryNoOrg(p, o)
        \/ \E o \in MainOrgs, n \in ReqNumbers : QueryBase(p, o, n)
        \/ \E o \in MainOrgs, n \in ReqNumbers : QueryBegin(p, o, n)
        \/ QueryNoTicket(p)
        \/ QueryAuto(p)
        \/ Abort(p)

SpecSnap == Init /\ [][NextSnap]_vars

\* ------------------------------------------ earlier server variant
\* src/unnamed/part_003 has the tables org_state and tickets (status
\* waiting | served | cancelled) and three routes: /api/take, the same
\* transaction as above, GET /api/ticket/:id, two plain SELECTs, and
\* /api/admin/next, a single UPDATE of org_state outside any transaction.
EarlyTakeInvalid(p, o) ==
    /\ proc[p].pc = "idle"
    /\ ~validateOrgId(o)
    /\ resp' = R("take", 400, FALSE, "Noto'g'ri orgId")
    /\ UNCHANGED <<org_state, tickets, orgLock, tktLock, proc>>

\* BEGIN; INSERT INTO org_state (org_id) ... ON CONFLICT (org_id) DO NOTHING
EarlyTakeBegin(p, o) ==
    /\ proc[p].pc = "idle"
    /\ validateOrgId(o)
    /\ Len(tickets) + PendingTakes < MaxTickets
    /\ IF org_state[o].exists
         THEN UNCHANGED orgLock
         ELSE /\ orgLock[o] = NoProc
              /\ orgLock' = [orgLock EXCEPT ![o] = p]
    /\ proc' = [proc EXCEPT ![p] = [Idle EXCEPT !.pc = "take_select", !.org = o]]
    /\ resp' = NoResp
    /\ UNCHANGED <<org_state, tickets, tktLock>>

\* SELECT next_number, current_number FROM org_state ... FOR UPDATE
EarlyTakeSelect(p) ==
    LET o == proc[p].org IN
    /\ proc[p].pc = "take_select"
    /\ OrgRowFree(p, o)
    /\ orgLock' = [orgLock EXCEPT ![o] = p]
    /\ proc' = [proc EXCEPT ![p].pc = "take_commit",
                            ![p].nextNumber = RowNext(o),
                            ![p].currentNumber = RowCurrent(o)]
    /\ resp' = NoResp
    /\ UNCHANGED <<org_state, tickets, tktLock>>

\* INSERT INTO tickets (org_id, number, ...); UPDATE org_state SET
\* next_number = next_number + 1; COMMIT; remaining = max(0, number -
\* currentNumber) is answered.
EarlyTakeCommit(p) ==
    LET o == proc[p].org
        n == proc[p].nextNumber
    IN
    /\ proc[p].pc = "take_commit"
    /\ tickets' = Append(tickets, [org_id |-> o, number |-> n,
                                   status |-> "waiting", served_at |-> FALSE])
    /\ org_state' = [org_state EXCEPT ![o] =
                        [exists |-> TRUE,
                         next_number |-> RowNext(o) + 1,
                         current_number |-> RowCurrent(o)]]
    /\ orgLock' = ReleaseOrg(p)
    /\ tktLock' = ReleaseTkt(p)
    /\ proc' = [proc EXCEPT ![p] = Idle]
    /\ resp' = [R("take", 200, TRUE, "") EXCEPT
                    !.number = n,
                    !.status = "waiting",
                    !.currentNumber = proc[p].currentNumber]

\* a statement of the transaction throws: ROLLBACK, 500
EarlyTakeAbort(p) ==
    /\ proc[p].pc \in {"take_select", "take_commit"}
    /\ orgLock' = ReleaseOrg(p)
    /\ tktLock' = ReleaseTkt(p)
    /\ proc' = [proc EXCEPT ![p] = Idle]
    /\ resp' = R("take", 500, FALSE, "error")
    /\ UNCHANGED <<org_state, tickets>>

\* GET /api/ticket/:id: no row
EarlyReadNotFound(p, tid) ==
    /\ proc[p].pc = "idle"
    /\ tid \notin TicketIds
    /\ resp' = R("ticket", 404, FALSE, "Ticket topilmadi")
    /\ UNCHANGED <<org_state, tickets, orgLock, tktLock, proc>>

\* SELECT the ticket; SELECT current_number, next_number; nothing is written
EarlyRead(p, tid) ==
    /\ proc[p].pc = "idle"
    /\ tid \in TicketIds
    /\ resp' = [R("ticket", 200, TRUE, "") EXCEPT
                    !.number = tickets[tid].number,
                    !.status = tickets[tid].status,
                    !.currentNumber = RowCurrent(tickets[tid].org_id)]
    /\ UNCHANGED <<org_state, tickets, orgLock, tktLock, proc>>

EarlyAdminNextNoOrg(p, o) ==
    /\ proc[p].pc = "idle"
    /\ o = ""
    /\ resp' = R("next", 400, FALSE, "orgId kerak")
    /\ UNCHANGED <<org_state, tickets, orgLock, tktLock, proc>>

\* the UPDATE matches no row: 404
EarlyAdminNextNoRow(p, o) ==
    /\ proc[p].pc = "idle"
    /\ o # ""
    /\ ~org_state[o].exists
    /\ resp' = R("next", 404, FALSE, "org_state topilmadi")
    /\ UNCHANGED <<org_state, tickets, orgLock, tktLock, proc>>

\* UPDATE org_state SET current_number = current_number + 1 WHERE org_id=$1
\* RETURNING current_number (it waits while a /api/take holds the row)
EarlyAdminNext(p, o) ==
    /\ proc[p].pc = "idle"
    /\ o # ""
    /\ org_state[o].exists
    /\ OrgRowFree(p, o)
    /\ org_state[o].current_number < MaxCurrent
    /\ org_state' = [org_state EXCEPT ![o].current_number = @ + 1]
    /\ resp' = [R("next", 200, TRUE, "") EXCEPT
                    !.currentNumber = org_state[o].current_number + 1]
    /\ UNCHANGED <<tickets, orgLock, tktLock, proc>>

NextEarly ==
    \E p \in Procs :
        \/ \E o \in MainOrgs : EarlyTakeInvalid(p, o)
        \/ \E o \in MainOrgs : EarlyTakeBegin(p, o)
        \/ EarlyTakeSelect(p)
        \/ EarlyTakeCommit(p)
        \/ EarlyTakeAbort(p)
        \/ \E tid \in ReqTicketIds : EarlyReadNotFound(p, tid)
        \/ \E tid \in ReqTicketIds : EarlyRead(p, tid)
        \/ \E o \in MainOrgs : EarlyAdminNextNoOrg(p, o)
        \/ \E o \in MainOrgs : EarlyAdminNextNoRow(p, o)
        \/ \E o \in MainOrgs : EarlyAdminNext(p, o)

SpecEarly == Init /\ [][NextEarly]_vars

\* ------------------------------------------- single-queue server
\* src/server.js keeps one table, queue (id SERIAL, chat_id, status WAIT |
\* NOW | SERVED, notified), and has no transactions: every statement commits
\* on its own and a handler can be interleaved with others between any two
\* of its statements.  In the specification of this server the variable
\* tickets holds the rows of queue in id order, org_state holds the next
\* value of the sequence the ids are drawn from, proc the position and the
\* locals of the handler running on each connection; no row lock is taken.
\* Every row carries two history fields: promoted counts the times a handler
\* made the row the NOW row (status changed to NOW, notified reset), sent the
\* times
\* bot.telegram.sendMessage was called for it by notifyIfNowChanged.
queue == tickets
queue_id_seq == org_state

\* chat_id NULL
NoChat == 0

QIdle(k) == [pc |-> "idle", op |-> "", id |-> 0, nowId |-> 0, chatId |-> NoChat,
             reqs |-> k]

QIds == {queue[i].id : i \in 1..Len(queue)}
QRow(id) == queue[CHOOSE i \in 1..Len(queue) : queue[i].id = id]

\* SELECT id FROM queue WHERE status=$st ORDER BY id ASC LIMIT 1 (0: no row)
FirstId(st) ==
    LET ids == {id \in QIds : QRow(id).status = st} IN
    IF ids = {} THEN 0 ELSE CHOOSE id \in ids : \A j \in ids : id <= j

\* SELECT id FROM queue WHERE status='WAIT' AND id < $1 ORDER BY id DESC LIMIT 1
PrevWaitId(nowId) ==
    LET ids == {id \in QIds : QRow(id).status = "WAIT" /\ id < nowId} IN
    IF ids = {} THEN 0 ELSE CHOOSE id \in ids : \A j \in ids : j <= id

\* UPDATE queue SET status=$st WHERE id=$1
QSetStatus(id, st) ==
    [i \in 1..Len(queue) |->
        IF queue[i].id = id
          THEN [queue[i] EXCEPT !.status = st]
          ELSE queue[i]]

\* UPDATE queue SET status=$st, notified=FALSE WHERE id=$1
QSetStatusUnnotified(id, st) ==
    [i \in 1..Len(queue) |->
        IF queue[i].id = id
          THEN [queue[i] EXCEPT !.status = st,
                                !.notified = FALSE,
                                !.promoted = IF st = "NOW" /\ queue[i].status # "NOW"
                                               THEN @ + 1 ELSE @]
          ELSE queue[i]]

\* DELETE FROM queue WHERE id=$1
QDelete(id) == SelectSeq(queue, LAMBDA r : r.id # id)

\* a request is accepted on a free connection
QAccept(p) ==
    /\ proc[p].pc = "idle"
    /\ proc[p].reqs < MaxRequests

QGoto(p, pc, op, id, nowId) ==
    [proc EXCEPT ![p] = [pc |-> pc, op |-> op, id |-> id, nowId |-> nowId,
                         chatId |-> proc[p].chatId,
                         reqs |-> IF proc[p].pc = "idle" THEN proc[p].reqs + 1
                                  ELSE proc[p].reqs]]

QDone(p) == [proc EXCEPT ![p] = QIdle(IF proc[p].pc = "idle" THEN proc[p].reqs + 1
                                      ELSE proc[p].reqs)]

\* POST /api/take: INSERT INTO queue (name, phone, status) ... RETURNING id
QTake(p) ==
    /\ QAccept(p)
    /\ queue_id_seq <= MaxQueue
    /\ tickets' = Append(queue, [id |-> queue_id_seq, chat_id |-> NoChat,
                                 status |-> "WAIT", notified |-> FALSE,
                                 promoted |-> 0, sent |-> 0])
    /\ org_state' = queue_id_seq + 1
    /\ proc' = QDone(p)
    /\ resp' = [R("take", 200, TRUE, "") EXCEPT !.number = queue_id_seq]
    /\ UNCHANGED <<orgLock, tktLock>>

\* notifyIfNowChanged: SELECT id, chat_id, notified FROM queue WHERE
\* status='NOW' ORDER BY id ASC LIMIT 1; return when there is no row, no
\* chat_id or notified is set.
NotifySelect(p) ==
    LET nowId == FirstId("NOW") IN
    /\ proc[p].pc = "ntf_select"
    /\ IF nowId = 0 \/ QRow(nowId).chat_id = NoChat \/ QRow(nowId).notified
         THEN proc' = [proc EXCEPT ![p].pc = "respond"]
         ELSE proc' = [proc EXCEPT ![p].pc = "ntf_send",
                                   ![p].nowId = nowId,
                                   ![p].chatId = QRow(nowId).chat_id]
    /\ resp' = NoResp
    /\ UNCHANGED <<org_state, tickets, orgLock, tktLock>>

\* the row of the call, with one more sendMessage counted
QCountSent(id) ==
    [i \in 1..Len(queue) |->
        IF queue[i].id = id THEN [queue[i] EXCEPT !.sent = @ + 1] ELSE queue[i]]

\* await bot.telegram.sendMessage(chatId, ...) succeeds
NotifySend(p) ==
    /\ proc[p].pc = "ntf_send"
    /\ tickets' = QCountSent(proc[p].nowId)
    /\ proc' = [proc EXCEPT ![p].pc = "ntf_mark"]
    /\ resp' = [R("notify", 200, TRUE, "NAVBATINGIZ KELDI") EXCEPT
                    !.number = proc[p].nowId]
    /\ UNCHANGED <<org_state, orgLock, tktLock>>

\* mutant: a failed send puts the ticket back to WAIT.
NotifySendFail_Rollback(p) ==
    /\ proc[p].pc = "ntf_send"
    /\ tickets' = [i \in 1..Len(queue) |->
                      IF queue[i].id = proc[p].nowId
                        THEN [queue[i] EXCEPT !.sent = @ + 1, !.status = "WAIT"]
                        ELSE queue[i]]
    /\ proc' = [proc EXCEPT ![p].pc = "respond"]
    /\ resp' = [R("notify", 500, FALSE, "Notify error") EXCEPT
                    !.number = proc[p].nowId]
    /\ UNCHANGED <<org_state, orgLock, tktLock>>

\* sendMessage throws: catch (e) { console.error("Notify error:", ...) }
NotifySendFail(p) ==
    /\ proc[p].pc = "ntf_send"
    /\ tickets' = QCountSent(proc[p].nowId)
    /\ proc' = [proc EXCEPT ![p].pc = "respond"]
    /\ resp' = [R("notify", 500, FALSE, "Notify error") EXCEPT
                    !.number = proc[p].nowId]
    /\ UNCHANGED <<org_state, orgLock, tktLock>>

\* UPDATE queue SET notified=TRUE WHERE id=$1
NotifyMark(p) ==
    /\ proc[p].pc = "ntf_mark"
    /\ tickets' = [i \in 1..Len(queue) |->
                      IF queue[i].id = proc[p].nowId
                        THEN [queue[i] EXCEPT !.notified = TRUE]
                        ELSE queue[i]]
    /\ proc' = [proc EXCEPT ![p].pc = "respond"]
    /\ resp' = NoResp
    /\ UNCHANGED <<org_state, orgLock, tktLock>>

\* res.json({ success: true, ... }) of the handler that called the notifier
QRespond(p) ==
    /\ proc[p].pc = "respond"
    /\ proc' = QDone(p)
    /\ resp' = [R(proc[p].op, 200, TRUE, "") EXCEPT !.number = proc[p].id]
    /\ UNCHANGED <<org_state, tickets, orgLock, tktLock>>

\* POST /api/admin/next: SELECT id FROM queue WHERE status='NOW' ...
QNextSelectNow(p) ==
    /\ QAccept(p)
    /\ proc' = QGoto(p, "next_serve", "next", 0, FirstId("NOW"))
    /\ resp' = NoResp
    /\ UNCHANGED <<org_state, tickets, orgLock, tktLock>>

\* if (nowQ.rowCount) UPDATE queue SET status='SERVED' WHERE id=$1
QNextServe(p) ==
    /\ proc[p].pc = "next_serve"
    /\ tickets' = IF proc[p].nowId # 0 THEN QSetStatus(proc[p].nowId, "SERVED")
                  ELSE queue
    /\ proc' = [proc EXCEPT ![p].pc = "next_select"]
    /\ resp' = NoResp
    /\ UNCHANGED <<org_state, orgLock, tktLock>>

\* SELECT the first WAIT row; none: { success: true, message: "Navbat bo'sh" }
QNextSelectWait(p) ==
    LET nextId == FirstId("WAIT") IN
    /\ proc[p].pc = "next_select"
    /\ IF nextId = 0
         THEN /\ proc' = QDone(p)
              /\ resp' = R("next", 200, TRUE, "Navbat bo'sh")
         ELSE /\ proc' = [proc EXCEPT ![p].pc = "next_promote", ![p].id = nextId]
              /\ resp' = NoResp
    /\ UNCHANGED <<org_state, tickets, orgLock, tktLock>>

\* UPDATE queue SET status='NOW', notified=FALSE WHERE id=$1 (in
\* /api/admin/next, /api/admin/prev, /api/admin/serve and done), followed by
\* notifyIfNowChanged()
QPromote(p) ==
    /\ proc[p].pc \in {"next_promote", "prev_promote", "serve_promote", "done_promote"}
    /\ tickets' = QSetStatusUnnotified(proc[p].id, "NOW")
    /\ proc' = [proc EXCEPT ![p].pc = "ntf_select"]
    /\ resp' = NoResp
    /\ UNCHANGED <<org_state, orgLock, tktLock>>

\* POST /api/admin/prev: SELECT the NOW row; none: message "NOW yo'q"
QPrevSelectNow(p) ==
    LET nowId == FirstId("NOW") IN
    /\ QAccept(p)
    /\ IF nowId = 0
         THEN /\ proc' = QDone(p)
              /\ resp' = R("prev", 200, TRUE, "NOW yo'q")
         ELSE /\ proc' = QGoto(p, "prev_demote", "prev", 0, nowId)
              /\ resp' = NoResp
    /\ UNCHANGED <<org_state, tickets, orgLock, tktLock>>

\* UPDATE queue SET status='WAIT', notified=FALSE WHERE id=$1
QPrevDemote(p) ==
    /\ proc[p].pc = "prev_demote"
    /\ tickets' = QSetStatusUnnotified(proc[p].nowId, "WAIT")
    /\ proc' = [proc EXCEPT ![p].pc = "prev_select"]
    /\ resp' = NoResp
    /\ UNCHANGED <<org_state, orgLock, tktLock>>

\* SELECT the last WAIT row before the demoted one
QPrevSelect(p) ==
    LET prevId == PrevWaitId(proc[p].nowId) IN
    /\ proc[p].pc = "prev_select"
    /\ proc' = IF prevId = 0
                 THEN [proc EXCEPT ![p].pc = "prev_restore"]
                 ELSE [proc EXCEPT ![p].pc = "prev_promote", ![p].id = prevId]
    /\ resp' = NoResp
    /\ UNCHANGED <<org_state, tickets, orgLock, tktLock>>

\* no previous row: UPDATE queue SET status='NOW' WHERE id=$1 puts the
\* demoted row back; message "Oldingi topilmadi"
QPrevRestore(p) ==
    /\ proc[p].pc = "prev_restore"
    /\ tickets' = QSetStatus(proc[p].nowId, "NOW")
    /\ proc' = QDone(p)
    /\ resp' = R("prev", 200, TRUE, "Oldingi topilmadi")
    /\ UNCHANGED <<org_state, orgLock, tktLock>>

\* POST /api/admin/serve?id=: UPDATE queue SET status='SERVED' WHERE id=$1
QServeMark(p, id) ==
    /\ QAccept(p)
    /\ id # 0
    /\ tickets' = QSetStatus(id, "SERVED")
    /\ proc' = QGoto(p, "serve_now", "serve", id, 0)
    /\ resp' = NoResp
    /\ UNCHANGED <<org_state, orgLock, tktLock>>

\* SELECT the NOW row: when there is one the handler answers
QServeSelectNow(p) ==
    /\ proc[p].pc = "serve_now"
    /\ proc' = IF FirstId("NOW") # 0 THEN [proc EXCEPT ![p].pc = "respond"]
               ELSE [proc EXCEPT ![p].pc = "serve_wait"]
    /\ resp' = NoResp
    /\ UNCHANGED <<org_state, tickets, orgLock, tktLock>>

\* SELECT the first WAIT row: none and the handler answers
QServeSelectWait(p) ==
    LET nextId == FirstId("WAIT") IN
    /\ proc[p].pc = "serve_wait"
    /\ proc' = IF nextId = 0 THEN [proc EXCEPT ![p].pc = "respond"]
               ELSE [proc EXCEPT ![p].pc = "serve_promote", ![p].id = nextId]
    /\ resp' = NoResp
    /\ UNCHANGED <<org_state, tickets, orgLock, tktLock>>

\* callback done:<id>: SELECT chat_id, status FROM queue WHERE id=$1 and the
\* SELECT of getTicketStats; no row: "Chipta topilmadi"
QDoneOwner(p, id) ==
    /\ QAccept(p)
    /\ id # 0
    /\ IF id \notin QIds
         THEN /\ proc' = QDone(p)
              /\ resp' = R("done", 404, FALSE, "Chipta topilmadi")
         ELSE /\ proc' = QGoto(p, "done_stats", "done", id, 0)
              /\ resp' = NoResp
    /\ UNCHANGED <<org_state, tickets, orgLock, tktLock>>

\* getTicketStats: SELECT id, status ... WHERE id=$1, then getNowIdOrAuto:
\* the NOW row or, when there is none, the first WAIT row; the status shown
\* is NOW only for that row, and only a NOW ticket can be finished.
QDoneStats(p) ==
    LET id == proc[p].id
        autoNowId == IF FirstId("NOW") # 0 THEN FirstId("NOW") ELSE FirstId("WAIT")
    IN
    /\ proc[p].pc = "done_stats"
    /\ IF id \notin QIds
         THEN /\ proc' = QDone(p)
              /\ resp' = R("done", 404, FALSE, "Topilmadi")
         ELSE IF QRow(id).status # "SERVED" /\ autoNowId = id
                THEN /\ proc' = [proc EXCEPT ![p].pc = "done_mark"]
                     /\ resp' = NoResp
                ELSE /\ proc' = QDone(p)
                     /\ resp' = R("done", 200, FALSE, "Hali navbat kelmagan")
    /\ UNCHANGED <<org_state, tickets, orgLock, tktLock>>

\* UPDATE queue SET status='SERVED' WHERE id=$1
QDoneMark(p) ==
    /\ proc[p].pc = "done_mark"
    /\ tickets' = QSetStatus(proc[p].id, "SERVED")
    /\ proc' = [proc EXCEPT ![p].pc = "done_select"]
    /\ resp' = [R("done", 200, TRUE, "Xizmat tugadi") EXCEPT !.number = proc[p].id]
    /\ UNCHANGED <<org_state, orgLock, tktLock>>

\* SELECT the first WAIT row; the notifier is called whether or not there
\* is one
QDoneSelect(p) ==
    LET nextId == FirstId("WAIT") IN
    /\ proc[p].pc = "done_select"
    /\ proc' = IF nextId = 0 THEN [proc EXCEPT ![p].pc = "ntf_select"]
               ELSE [proc EXCEPT ![p].pc = "done_promote", ![p].id = nextId]
    /\ resp' = NoResp
    /\ UNCHANGED <<org_state, tickets, orgLock, tktLock>>

\* callback leave:<id>: SELECT chat_id, status ...; a NOW ticket cannot leave
QLeaveOwner(p, id) ==
    /\ QAccept(p)
    /\ id # 0
    /\ IF id \notin QIds
         THEN /\ proc' = QDone(p)
              /\ resp' = R("leave", 404, FALSE, "Chipta topilmadi")
         ELSE IF QRow(id).status = "NOW"
                THEN /\ proc' = QDone(p)
                     /\ resp' = R("leave", 200, FALSE, "Navbat kelgan, chiqib bo'lmaydi")
                ELSE /\ proc' = QGoto(p, "leave_delete", "leave", id, 0)
                     /\ resp' = NoResp
    /\ UNCHANGED <<org_state, tickets, orgLock, tktLock>>

\* DELETE FROM queue WHERE id=$1
QLeaveDelete(p) ==
    /\ proc[p].pc = "leave_delete"
    /\ tickets' = QDelete(proc[p].id)
    /\ proc' = QDone(p)
    /\ resp' = [R("leave", 200, TRUE, "Chiqdingiz") EXCEPT !.number = proc[p].id]
    /\ UNCHANGED <<org_state, orgLock, tktLock>>

\* POST /api/admin/delete?id=: DELETE FROM queue WHERE id=$1
QAdminDelete(p, id) ==
    /\ QAccept(p)
    /\ id # 0
    /\ tickets' = QDelete(id)
    /\ proc' = QDone(p)
    /\ resp' = [R("delete", 200, TRUE, "") EXCEPT !.number = id]
    /\ UNCHANGED <<org_state, orgLock, tktLock>>

\* POST /api/admin/clear: TRUNCATE TABLE queue RESTART IDENTITY
QAdminClear(p) ==
    /\ QAccept(p)
    /\ tickets' = << >>
    /\ org_state' = 1
    /\ proc' = QDone(p)
    /\ resp' = R("clear", 200, TRUE, "")
    /\ UNCHANGED <<orgLock, tktLock>>

\* The table as /api/take and the bot's contact handler (one active ticket
\* per chat) have filled it: rows 1..n waiting, with or without a chat_id.
InitQueue ==
    \E n \in 0..(MaxQueue - 1) :
    \E chat \in [1..n -> BOOLEAN] :
        /\ tickets = [i \in 1..n |->
                         [id |-> i, chat_id |-> IF chat[i] THEN i ELSE NoChat,
                          status |-> "WAIT", notified |-> FALSE,
                          promoted |-> 0, sent |-> 0]]
        /\ org_state = n + 1
        /\ orgLock = [o \in OrgIds |-> NoProc]
        /\ tktLock = [i \in 1..MaxTickets |-> NoProc]
        /\ proc = [p \in Procs |-> QIdle(0)]
        /\ resp = NoResp

NextQueue ==
    \E p \in Procs :
        \/ QTake(p)
        \/ QNextSelectNow(p)
        \/ QNextServe(p)
        \/ QNextSelectWait(p)
        \/ QPromote(p)
        \/ QPrevSelectNow(p)
        \/ QPrevDemote(p)
        \/ QPrevSelect(p)
        \/ QPrevRestore(p)
        \/ \E id \in 0..MaxQueue : QServeMark(p, id)
        \/ QServeSelectNow(p)
        \/ QServeSelectWait(p)
        \/ \E id \in 0..MaxQueue : QDoneOwner(p, id)
        \/ QDoneStats(p)
        \/ QDoneMark(p)
        \/ QDoneSelect(p)
        \/ \E id \in 0..MaxQueue : QLeaveOwner(p, id)
        \/ QLeaveDelete(p)
        \/ \E id \in 0..MaxQueue : QAdminDelete(p, id)
        \/ QAdminClear(p)
        \/ NotifySelect(p)
        \/ NotifySend(p)
        \/ NotifySendFail(p)
        \/ NotifyMark(p)
        \/ QRespond(p)

SpecQueue == InitQueue /\ [][NextQueue]_vars


\* ----------------------------------------- single-queue server: the bot
\* The updates of the Telegram bot, each handled on its own connection: the
\* contact handler, which issues a ticket for the chat that sent it, and the
\* callback handler of the buttons under a ticket message (ack, no, done,
\* leave), which carries the chat that pressed.  Rows have the column
\* acknowledged as well; rows without a chat_id come from /api/take.
Chats == {1, 2}
\* process.env.ADMIN_CHAT_ID
ADMIN_CHAT_ID == 3
BotChats == Chats \cup {ADMIN_CHAT_ID}
UserCmds == {"ack", "no", "done", "leave"}

\* ids of the rows WHERE chat_id=$1 AND status IN ('WAIT','NOW')
ActiveIds(chat) ==
    {id \in QIds : QRow(id).chat_id = chat /\ QRow(id).status \in {"WAIT", "NOW"}}

\* contact handlers that have passed the SELECT and not yet inserted
PendingContacts == Cardinality({p \in Procs : proc[p].pc = "contact_insert"})

\* bot.on("contact"): SELECT id FROM queue WHERE chat_id=$1 AND status IN
\* ('WAIT','NOW') ORDER BY id DESC LIMIT 1; a row: "Sizda aktiv navbat bor"
ContactSelect(p, chat) ==
    /\ QAccept(p)
    /\ queue_id_seq + PendingContacts <= MaxQueue
    /\ IF ActiveIds(chat) # {}
         THEN /\ proc' = QDone(p)
              /\ resp' = [R("contact", 200, TRUE, "Sizda aktiv navbat bor") EXCEPT
                              !.number = CHOOSE id \in ActiveIds(chat) :
                                            \A j \in ActiveIds(chat) : j <= id]
         ELSE /\ proc' = [proc EXCEPT ![p] = [pc |-> "contact_insert", op |-> "contact",
                                              id |-> 0, nowId |-> 0, chatId |-> chat,
                                              reqs |-> proc[p].reqs + 1]]
              /\ resp' = NoResp
    /\ UNCHANGED <<org_state, tickets, orgLock, tktLock>>

\* INSERT INTO queue (name, phone, chat_id, status) VALUES ($1,$2,$3,'WAIT')
\* RETURNING id
ContactInsert(p) ==
    /\ proc[p].pc = "contact_insert"
    /\ tickets' = Append(queue, [id |-> queue_id_seq, chat_id |-> proc[p].chatId,
                                 status |-> "WAIT", notified |-> FALSE,
                                 acknowledged |-> FALSE,
                                 promoted |-> 0, sent |-> 0])
    /\ org_state' = queue_id_seq + 1
    /\ proc' = QDone(p)
    /\ resp' = [R("contact", 200, TRUE, "Navbat olindi") EXCEPT !.number = queue_id_seq]
    /\ UNCHANGED <<orgLock, tktLock>>

\* isAdminChat(ctx)
isAdminChat(chat) == chat = ADMIN_CHAT_ID

\* the negation of
\* if (ownerChat && ownerChat !== chatId && !isAdminChat(ctx)) { ... return }
CallbackAllowed(ownerChat, chat) ==
    ~(ownerChat # NoChat /\ ownerChat # chat /\ ~isAdminChat(chat))

\* bot.on("callback_query"), user actions cmd:id pressed in chat: SELECT
\* chat_id, status FROM queue WHERE id=$1, the owner test, then the command
CallbackOwner(p, cmd, id, chat) ==
    /\ QAccept(p)
    /\ id # 0
    /\ IF id \notin QIds
         THEN /\ proc' = QDone(p)
              /\ resp' = R(cmd, 404, FALSE, "Chipta topilmadi")
         ELSE IF ~CallbackAllowed(QRow(id).chat_id, chat)
                THEN /\ proc' = QDone(p)
                     /\ resp' = R(cmd, 403, FALSE, "Bu sizning chiptangiz emas")
         ELSE IF cmd = "leave" /\ QRow(id).status = "NOW"
                THEN /\ proc' = QDone(p)
                     /\ resp' = R(cmd, 200, FALSE, "Navbat kelgan, chiqib bo'lmaydi")
         ELSE /\ proc' = [proc EXCEPT ![p] =
                             [pc |-> CASE cmd = "ack" -> "cb_ack"
                                       [] cmd = "no" -> "cb_no"
                                       [] cmd = "done" -> "done_stats"
                                       [] cmd = "leave" -> "leave_delete",
                              op |-> cmd, id |-> id, nowId |-> 0, chatId |-> chat,
                              reqs |-> proc[p].reqs + 1]]
              /\ resp' = NoResp
    /\ UNCHANGED <<org_state, tickets, orgLock, tktLock>>

\* UPDATE queue SET acknowledged=$v WHERE id=$1
QSetAcknowledged(id, v) ==
    [i \in 1..Len(queue) |->
        IF queue[i].id = id THEN [queue[i] EXCEPT !.acknowledged = v] ELSE queue[i]]

\* ack: UPDATE queue SET acknowledged=TRUE WHERE id=$1; "Qabul qilindi"
CallbackAck(p) ==
    /\ proc[p].pc = "cb_ack"
    /\ tickets' = QSetAcknowledged(proc[p].id, TRUE)
    /\ proc' = QDone(p)
    /\ resp' = [R("ack", 200, TRUE, "Qabul qilindi") EXCEPT !.number = proc[p].id]
    /\ UNCHANGED <<org_state, orgLock, tktLock>>

\* no: UPDATE queue SET acknowledged=FALSE WHERE id=$1; "OK"
CallbackNo(p) ==
    /\ proc[p].pc = "cb_no"
    /\ tickets' = QSetAcknowledged(proc[p].id, FALSE)
    /\ proc' = QDone(p)
    /\ resp' = [R("no", 200, TRUE, "OK") EXCEPT !.number = proc[p].id]
    /\ UNCHANGED <<org_state, orgLock, tktLock>>

\* The table as the contact handler (rows with a chat_id, one per chat) and
\* /api/take (rows without) have filled it.
InitBot ==
    \E n \in 0..(MaxQueue - 1) :
    \E chat \in [1..n -> BOOLEAN] :
        /\ tickets = [i \in 1..n |->
                         [id |-> i, chat_id |-> IF chat[i] THEN i ELSE NoChat,
                          status |-> "WAIT", notified |-> FALSE,
                          acknowledged |-> FALSE,
                          promoted |-> 0, sent |-> 0]]
        /\ org_state = n + 1
        /\ orgLock = [o \in OrgIds |-> NoProc]
        /\ tktLock = [i \in 1..MaxTickets |-> NoProc]
        /\ proc = [p \in Procs |-> QIdle(0)]
        /\ resp = NoResp

NextBot ==
    \E p \in Procs :
        \/ \E chat \in Chats : ContactSelect(p, chat)
        \/ ContactInsert(p)
        \/ \E cmd \in UserCmds, id \in 0..MaxQueue, chat \in BotChats :
                CallbackOwner(p, cmd, id, chat)
        \/ CallbackAck(p)
        \/ CallbackNo(p)
        \/ QDoneStats(p)
        \/ QDoneMark(p)
        \/ QDoneSelect(p)
        \/ QLeaveDelete(p)
        \/ QPromote(p)
        \/ NotifySelect(p)
        \/ NotifySend(p)
        \/ NotifySendFail(p)
        \/ NotifyMark(p)
        \/ QRespond(p)

SpecBot == InitBot /\ [][NextBot]_vars

\* ======================================================== properties
\* numbers of the tickets of an organization
Numbers(o) == {tickets[i].number : i \in OrgTickets(o)}

\* C1: under any interleaving of concurrent /api/take calls for one
\* organization no two open calls hold the same nextNumber, and the tickets
\* committed so far carry distinct numbers that increase strictly in commit
\* order and are contiguous from 1 (no duplicate, no gap at issuance).
C1_IssueDistinctContiguous ==
    /\ \A p, q \in Procs :
          (/\ p # q
           /\ proc[p].pc = "take_commit"
           /\ proc[q].pc = "take_commit"
           /\ proc[p].org = proc[q].org)
          => proc[p].nextNumber # proc[q].nextNumber
    /\ \A o \in OrgIds :
          /\ \A i, j \in OrgTickets(o) : i < j => tickets[i].number < tickets[j].number
          /\ Numbers(o) = 1..Cardinality(OrgTickets(o))

\* two calls for one organization are open at once, one holding the counter
\* row, after a first ticket was committed
C1_Witness ==
    /\ Len(tickets) >= 1
    /\ \E p, q \in Procs :
          /\ p # q
          /\ proc[p].pc = "take_commit"
          /\ proc[q].pc = "take_select"
          /\ proc[p].org = proc[q].org
          /\ proc[p].org = tickets[1].org_id

\* C2 (I2): in every reachable state nextNumber - 1 is the highest ticket
\* number issued for the organization, 0 when none was issued.
C2_NextIsLastPlusOne ==
    \A o \in OrgIds : RowNext(o) - 1 = MaxIssued(o)

\* every ticket the bound allows was issued, one was advanced over and one
\* was cancelled
C2_Witness ==
    \E o \in OrgIds :
        /\ MaxIssued(o) = MaxTickets
        /\ RowCurrent(o) >= 1
        /\ \E i \in OrgTickets(o) : tickets[i].status = "cancelled"
        /\ \E i \in OrgTickets(o) : tickets[i].status = "served"

\* C3 as stated (I1 / P2): every counter record has
\* nextNumber >= currentServedNumber + 2 and nextNumber - 1 >= the highest
\* issued number.
C3_Original ==
    \A o \in OrgIds :
        org_state[o].exists =>
            /\ RowNext(o) >= RowCurrent(o) + 2
            /\ RowNext(o) - 1 >= MaxIssued(o)

\* C3 amended: in every reachable state
\* nextNumber >= currentServedNumber + 1 and nextNumber - 1 >= the highest
\* issued number.
C3_CountersOrdered ==
    \A o \in OrgIds :
        /\ RowNext(o) >= RowCurrent(o) + 1
        /\ RowNext(o) - 1 >= MaxIssued(o)

\* every issued ticket has been passed: the pointer is at the last number
C3_Witness ==
    \E o \in OrgIds :
        /\ org_state[o].exists
        /\ RowCurrent(o) >= 1
        /\ RowNext(o) = RowCurrent(o) + 1

\* the step in which connection p commits a /api/take transaction
TakeCommitted(p) ==
    /\ proc[p].pc = "take_commit"
    /\ proc'[p].pc = "idle"
    /\ resp'.op = "take"

\* Normalize of the specification (4.3)
NormalizedNext(o) == Max(RowNext(o), Max(RowCurrent(o) + 2, MaxIssued(o) + 1))

C5_CurrentNeverDecreases ==
    [][\A o \in OrgIds : RowCurrent(o)' >= RowCurrent(o)]_vars

\* the pointer has moved twice and the last step was a mark-served that
\* moved it
C5_Witness ==
    /\ resp.op = "served"
    /\ resp.msg = "served"
    /\ resp.currentNumber >= 2
    /\ \E o \in OrgIds :
          /\ RowCurrent(o) = resp.currentNumber
          /\ \E i \in OrgTickets(o) : /\ tickets[i].number = RowCurrent(o)
                                      /\ tickets[i].status = "served"

\* C6: served and cancelled are terminal, and the only status changes are
\* waiting -> served | missed | cancelled and missed -> served | cancelled.
C6_TerminalStatuses ==
    [][\A i \in TicketIds :
          tickets'[i].status # tickets[i].status =>
              \/ /\ tickets[i].status = "waiting"
                 /\ tickets'[i].status \in {"served", "missed", "cancelled"}
              \/ /\ tickets[i].status = "missed"
                 /\ tickets'[i].status \in {"served", "cancelled"}]_vars

\* the step in which connection p commits a /api/ticket/served transaction
ServedCommitted(p) ==
    /\ proc[p].pc = "srv_commit"
    /\ proc'[p].pc = "idle"
    /\ resp'.op = "served"

\* C7: a mark-served that commits on a waiting or missed ticket makes it
\* served with servedAt stamped, leaves nextNumber alone, and increments
\* currentServedNumber by exactly 1 if and only if the ticket's number is
\* nowServing at that moment.
C7_MarkServedEffect ==
    [][\A p \in Procs :
          ServedCommitted(p) =>
              \A tid \in proc[p].tids, o \in OrgIds, n \in 1..MaxTickets :
                  /\ tickets[tid].org_id = o
                  /\ tickets[tid].number = n
                  /\ tickets[tid].status \in {"waiting", "missed"}
                  =>    /\ tickets'[tid].status = "served"
                        /\ tickets'[tid].served_at
                        /\ RowNext(o)' = RowNext(o)
                        /\ n = RowCurrent(o) + 1 => RowCurrent(o)' = RowCurrent(o) + 1
                        /\ n # RowCurrent(o) + 1 => RowCurrent(o)' = RowCurrent(o)
                        /\ \A j \in TicketIds : j # tid => tickets'[j] = tickets[j]]_vars

\* a mark-served has just committed on the ticket in turn (the pointer is on
\* its number) while a later ticket was already served out of turn
C7_Witness ==
    /\ resp.op = "served"
    /\ resp.msg = "served"
    /\ \E o \in OrgIds :
          /\ RowCurrent(o) = resp.currentNumber
          /\ RowCurrent(o) >= 1
          /\ \E i, j \in OrgTickets(o) :
                /\ tickets[i].number = RowCurrent(o)
                /\ tickets[i].status = "served"
                /\ tickets[i].served_at
                /\ tickets[j].number > RowCurrent(o) + 1
                /\ tickets[j].status = "served"

\* the step in which connection p commits an advancing /api/admin/next
AdminNextCommitted(p) ==
    /\ proc[p].pc = "nxt_commit"
    /\ proc'[p].pc = "idle"
    /\ resp'.op = "next"

\* C8: an Advance that commits found nowServing <= lastNumber; it makes the
\* ticket numbered nowServing served if it was waiting or missed, leaves
\* every other ticket and nextNumber unchanged and increments
\* currentServedNumber by exactly 1.
C8_AdvanceEffect ==
    [][\A p \in Procs :
          \A o \in OrgIds, n \in 1..MaxTickets :
              /\ AdminNextCommitted(p)
              /\ proc[p].org = o
              /\ n = RowCurrent(o) + 1
              => /\ n <= RowNext(o) - 1
                 /\ RowCurrent(o)' = RowCurrent(o) + 1
                 /\ RowNext(o)' = RowNext(o)
                 /\ Len(tickets') = Len(tickets)
                 /\ \A i \in TicketIds :
                       IF /\ tickets[i].org_id = o
                          /\ tickets[i].number = n
                          /\ tickets[i].status \in {"waiting", "missed"}
                         THEN tickets'[i] = [tickets[i] EXCEPT !.status = "served",
                                                               !.served_at = TRUE]
                         ELSE tickets'[i] = tickets[i]]_vars

\* an Advance has just passed a cancelled ticket, which stays cancelled,
\* after an earlier one served the ticket before it
C8_Witness ==
    /\ resp.op = "next"
    /\ resp.code = 200
    /\ resp.msg = ""
    /\ resp.currentNumber >= 2
    /\ \E o \in OrgIds :
          /\ RowCurrent(o) = resp.currentNumber
          /\ \E i, j \in OrgTickets(o) :
                /\ tickets[i].number = RowCurrent(o)
                /\ tickets[i].status = "cancelled"
                /\ tickets[j].number = RowCurrent(o) - 1
                /\ tickets[j].status = "served"

\* the step in which /api/admin/next on connection p answers for an
\* organization whose queue is empty (nowServing > lastNumber)
EmptyAdvance(p) ==
    /\ proc[p].pc = "nxt_begin"
    /\ proc'[p].pc = "idle"
    /\ resp'.op = "next"
    /\ org_state[proc[p].org].exists
    /\ RowCurrent(proc[p].org) + 1 > RowNext(proc[p].org) - 1

Advancing(p) == proc[p].pc \in {"nxt_update", "nxt_commit"}

\* C10: of the NumProcs concurrent Advance calls on an organization with
\* p = lastNumber pending tickets at most one advances at a time, each commit
\* increments currentServedNumber by exactly 1 for the number it read, a call
\* that does not advance saw an empty queue and changed nothing, and when all
\* have answered currentServedNumber has grown by min(NumProcs, p).
C10_ConcurrentAdvance ==
    [][/\ \A p, q \in Procs :
             (Advancing(p) /\ Advancing(q) /\ proc[p].org = proc[q].org)' => p = q
       /\ \A p \in Procs, o \in OrgIds :
             AdminNextCommitted(p) /\ proc[p].org = o =>
                 /\ proc[p].number = RowCurrent(o) + 1
                 /\ RowCurrent(o)' = RowCurrent(o) + 1
       /\ \A p \in Procs :
             (proc[p].pc = "nxt_begin" /\ proc'[p].pc = "idle") =>
                 /\ RowCurrent(proc[p].org) + 1 > RowNext(proc[p].org) - 1
                 /\ UNCHANGED <<org_state, tickets>>
       /\ (\A p \in Procs : proc'[p].pc = "idle") =>
             RowCurrent("A")' = Min(NumProcs, RowNext("A")' - 1)]_vars

\* two calls, one pending ticket: one call advanced, the other has just
\* answered that the queue is empty
C10_Witness ==
    /\ \A p \in Procs : proc[p].pc = "idle"
    /\ RowNext("A") = 2
    /\ RowCurrent("A") = 1
    /\ resp.msg = "Navbat bo'sh"

\* C11: /api/cancel with an orgId and a number answers cancelled = true and
\* makes the ticket cancelled exactly when a ticket of that organization with
\* that number is waiting or missed; otherwise (served, cancelled, no such
\* ticket) it answers cancelled = false without an error and changes no
\* ticket; the counters are unchanged in every case.
C11_CancelByNumber ==
    [][\A p \in Procs, o \in OrgIds, n \in ReqNumbers :
          Cancel(p, o, n) =>
              LET hit == {i \in TicketIds : /\ tickets[i].org_id = o
                                            /\ tickets[i].number = n
                                            /\ tickets[i].status \in {"waiting", "missed"}}
              IN /\ resp'.code = 200
                 /\ resp'.ok
                 /\ resp'.cancelled = (hit # {})
                 /\ Len(tickets') = Len(tickets)
                 /\ \A i \in TicketIds :
                       tickets'[i] = IF i \in hit
                                       THEN [tickets[i] EXCEPT !.status = "cancelled"]
                                       ELSE tickets[i]
                 /\ org_state' = org_state]_vars

\* a cancel has just answered true (every ticket is cancelled now) on a
\* queue whose pointer had moved
C11_Witness ==
    /\ resp.op = "cancel"
    /\ resp.cancelled
    /\ RowCurrent("A") >= 1
    /\ \A i \in TicketIds : tickets[i].status = "cancelled"

\* C12: in every reachable state no two tickets of one organization share a
\* number; in particular the number of a cancelled ticket is not issued again.
C12_NumbersNeverReused ==
    \A i, j \in TicketIds :
        (i # j /\ tickets[i].org_id = tickets[j].org_id)
            => tickets[i].number # tickets[j].number

\* an Issue has just committed after the last issued ticket was cancelled
C12_Witness ==
    /\ resp.op = "take"
    /\ resp.code = 200
    /\ \E i, j \in TicketIds :
          /\ tickets[i].org_id = tickets[j].org_id
          /\ tickets[i].status = "cancelled"
          /\ tickets[j].number = tickets[i].number + 1
          /\ tickets[j].number = resp.number
          /\ j = Len(tickets)

\* the step in which a read on connection p reconciles its ticket and answers
ReconcileStep(p) ==
    /\ proc[p].pc \in {"rd_auto", "qry_auto"}
    /\ proc'[p].pc = "idle"
    /\ resp'.op \in {"ticket", "query"}
    /\ resp'.number # 0

\* the ticket the read on connection p is about
ReadTicket(p, tid) ==
    /\ tid \in TicketIds
    /\ tickets[tid].org_id = proc[p].org
    /\ tickets[tid].number = proc[p].number

\* C13: a read reconciles its ticket with behind = nowServing - number:
\* behind <= 0 changes nothing; 0 < behind <= 5 makes a waiting ticket missed
\* and leaves any other status; behind > 5 makes a waiting or missed ticket
\* cancelled and leaves a served or cancelled one; no other ticket and no
\* counter is changed by a read.
C13_Reconciliation ==
    [][\A p \in Procs :
          /\ \A tid \in TicketIds :
                (ReconcileStep(p) /\ ReadTicket(p, tid)) =>
                    LET behind == proc[p].currentNumber + 1 - proc[p].number
                        old == tickets[tid].status
                    IN /\ behind <= 0 => tickets'[tid].status = old
                       /\ (behind > 0 /\ behind <= 5) =>
                             tickets'[tid].status =
                                 IF old = "waiting" THEN "missed" ELSE old
                       /\ behind > 5 =>
                             tickets'[tid].status =
                                 IF old \in {"waiting", "missed"} THEN "cancelled" ELSE old
                       /\ resp'.status = tickets'[tid].status
                       /\ tickets'[tid].number = tickets[tid].number
                       /\ \A j \in TicketIds : j # tid => tickets'[j] = tickets[j]
                       /\ Len(tickets') = Len(tickets)
                       /\ org_state' = org_state
          /\ (proc[p].pc = "idle" /\ proc'[p].pc \in {"rd_auto", "qry_auto"}) =>
                /\ tickets' = tickets
                /\ \A o \in OrgIds : /\ RowCurrent(o)' = RowCurrent(o)
                                     /\ RowNext(o)' = RowNext(o)]_vars

\* a read has just answered missed for a ticket exactly 5 behind, and another
\* ticket more than 5 behind is cancelled
C13_Witness ==
    /\ resp.op = "ticket"
    /\ resp.code = 200
    /\ resp.status = "missed"
    /\ resp.nowServing - resp.number = 5
    /\ \E i, j \in OrgTickets("A") :
          /\ tickets[i].number = resp.number
          /\ tickets[i].status = "missed"
          /\ tickets[j].number < resp.number
          /\ tickets[j].status = "cancelled"

\* C14 (P3): reconciliation is idempotent: for every status, number and
\* nowServing, reconciling twice gives the status reconciling once gives, and
\* after every read a second reconciliation with the same nowServing would
\* leave the ticket's status as the read left it.
C14_ReconcileIdempotent ==
    [][/\ (\E p \in Procs : ReconcileStep(p)) =>
             \A st \in Statuses, n \in 0..MaxTickets, ns \in 0..(MaxCurrent + MaxTickets + 1) :
                 autoUpdateTicketStatusIfNeeded(
                     autoUpdateTicketStatusIfNeeded(st, n, ns), n, ns)
                   = autoUpdateTicketStatusIfNeeded(st, n, ns)
       /\ \A p \in Procs, tid \in TicketIds :
             (ReconcileStep(p) /\ ReadTicket(p, tid)) =>
                 autoUpdateTicketStatusIfNeeded(tickets'[tid].status, proc[p].number,
                                                proc[p].currentNumber + 1)
                   = tickets'[tid].status]_vars

\* a read has just made a ticket missed and a second read of the same ticket
\* holds the same nowServing
C14_Witness ==
    /\ resp.op \in {"ticket", "query"}
    /\ resp.status = "missed"
    /\ \E q \in Procs, i \in TicketIds :
          /\ proc[q].pc \in {"rd_auto", "qry_auto"}
          /\ proc[q].org = tickets[i].org_id
          /\ proc[q].number = tickets[i].number
          /\ proc[q].number = resp.number
          /\ proc[q].currentNumber + 1 = resp.nowServing
          /\ resp.nowServing > resp.number
          /\ tickets[i].status = "missed"

\* C15: a reconciliation never fails and never writes over another
\* operation's result: a served or cancelled ticket is left as it is, a
\* ticket already reconciled for that nowServing is left as it is, a row
\* locked by an open mark-served is not written, and a status is only ever
\* changed from waiting or missed to missed or cancelled.
C15_ReconcileAtomic ==
    [][\A p \in Procs, tid \in TicketIds :
          (ReconcileStep(p) /\ ReadTicket(p, tid)) =>
              LET behind == proc[p].currentNumber + 1 - proc[p].number
                  old == tickets[tid].status
              IN /\ resp'.code = 200
                 /\ resp'.ok
                 /\ old \in {"served", "cancelled"} => tickets' = tickets
                 /\ (old = "missed" /\ behind <= 5) => tickets' = tickets
                 /\ tickets' # tickets =>
                       /\ tktLock[tid] = NoProc
                       /\ old \in {"waiting", "missed"}
                       /\ tickets'[tid].status \in {"missed", "cancelled"}]_vars

\* a read has just answered served for a ticket behind the pointer, which a
\* mark-served committed on meanwhile, while a second read of the same ticket
\* is still open
C15_Witness ==
    /\ resp.op \in {"ticket", "query"}
    /\ resp.status = "served"
    /\ resp.nowServing > resp.number
    /\ \E q \in Procs, i \in TicketIds :
          /\ proc[q].pc \in {"rd_auto", "qry_auto"}
          /\ proc[q].org = tickets[i].org_id
          /\ proc[q].number = tickets[i].number
          /\ proc[q].number = resp.number
          /\ tickets[i].status = "served"

\* C16: an Issue that commits appends one waiting ticket whose number is the
\* nextNumber read in the transaction, increments nextNumber by exactly 1,
\* leaves currentServedNumber and every other ticket unchanged, and answers
\* nowServing = currentServedNumber + 1 and lastNumber = the number issued;
\* while nothing was served the k-th Issue answers number k, nowServing 1 and
\* lastNumber k.
C16_IssueEffect ==
    [][\A p \in Procs, o \in OrgIds :
          (TakeCommitted(p) /\ proc[p].org = o) =>
              /\ Len(tickets') = Len(tickets) + 1
              /\ \A i \in TicketIds : tickets'[i] = tickets[i]
              /\ tickets'[Len(tickets')].org_id = o
              /\ tickets'[Len(tickets')].status = "waiting"
              /\ tickets'[Len(tickets')].number = proc[p].nextNumber
              /\ proc[p].nextNumber = RowNext(o)
              /\ RowNext(o)' = RowNext(o) + 1
              /\ RowCurrent(o)' = RowCurrent(o)
              /\ \A o2 \in OrgIds : o2 # o => org_state'[o2] = org_state[o2]
              /\ resp'.number = tickets'[Len(tickets')].number
              /\ resp'.nowServing = RowCurrent(o) + 1
              /\ resp'.lastNumber = resp'.number
              /\ resp'.lastNumber = RowNext(o)' - 1
              /\ RowCurrent(o) = 0 =>
                    /\ resp'.number = Cardinality(OrgTickets(o)) + 1
                    /\ resp'.nowServing = 1]_vars

\* scenario A: the third Issue on a fresh organization has just answered
C16_Witness ==
    /\ resp.op = "take"
    /\ resp.code = 200
    /\ resp.number = 3
    /\ resp.nowServing = 1
    /\ resp.lastNumber = 3
    /\ \E o \in OrgIds :
          /\ RowCurrent(o) = 0
          /\ RowNext(o) = 4
          /\ Cardinality(OrgTickets(o)) = 3
          /\ \A i \in OrgTickets(o) : tickets[i].status = "waiting"

\* m is sum / den rounded to the nearest integer (halves upwards)
IsRounded(m, sum, den) ==
    /\ 2 * den * m - den <= 2 * sum
    /\ 2 * sum < 2 * den * m + den

\* the last response is one that carries an ETA
EtaAnswered ==
    /\ resp.op \in {"take", "ticket"}
    /\ resp.code = 200

\* C17 as stated: the ETA is max(0, number - nowServing) times the average
\* service time when the estimator has a value, and unknown otherwise.
C17_Original ==
    EtaAnswered =>
        IF resp.avgServiceSec = Null
          THEN resp.etaMinutes = Null
          ELSE resp.etaMinutes = Max(0, resp.number - resp.nowServing) * resp.avgServiceSec

\* C17 amended: the ETA of Issue and of a ticket read is given in minutes:
\* max(0, number - nowServing) times the average service time, divided by 60
\* and rounded to the nearest minute, when the estimator has a value; it is
\* unknown (null, not 0) exactly when the estimator is unknown.
C17_EtaMinutes ==
    EtaAnswered =>
        /\ resp.avgServiceSec = computeAvgServiceSec("A")
        /\ resp.remaining = Max(0, resp.number - resp.nowServing)
        /\ resp.avgServiceSec = Null => (resp.etaMinutes = Null /\ resp.etaMinutes # 0)
        /\ resp.avgServiceSec # Null =>
              /\ resp.avgServiceSec > 0
              /\ resp.etaMinutes >= 0
              /\ IsRounded(resp.etaMinutes, resp.remaining * resp.avgServiceSec, 60)

\* an Issue has just answered for a ticket one place behind nowServing with
\* an average of 42 s: the ETA is 1 minute
C17_Witness ==
    /\ resp.op = "take"
    /\ resp.code = 200
    /\ resp.avgServiceSec = 42
    /\ resp.remaining = 1
    /\ resp.etaMinutes = 1

\* served_at values of an organization's served tickets
ServedTimes(o) == {tickets[i].served_at : i \in ServedRows(o)}

\* the last 6 of a set of timestamps
Last6(T) == {t \in T : Cardinality({u \in T : u > t}) < 6}

\* the difference, in ms, between a timestamp of T and the one before it
GapMs(T, t) == t - (CHOOSE u \in T : u < t /\ \A v \in T : v < t => v <= u)

\* timestamps of T whose difference to the one before is strictly more than
\* 5 s and strictly less than 6 h
StatedPlausible(T) ==
    {t \in T : /\ \E u \in T : u < t
               /\ GapMs(T, t) > 5 * 1000
               /\ GapMs(T, t) < 6 * 3600 * 1000}

\* C18 (P5): whenever fewer than 3 of the consecutive differences of the last
\* 6 servedAt timestamps are strictly more than 5 s and strictly less than
\* 6 h, the estimator is unknown, in the tables and in the response.
C18_UnknownBelowThree ==
    /\ \A o \in OrgIds :
          Cardinality(StatedPlausible(Last6(ServedTimes(o)))) < 3
              => computeAvgServiceSec(o) = Null
    /\ (EtaAnswered /\ Cardinality(StatedPlausible(Last6(ServedTimes("A")))) < 3)
          => resp.avgServiceSec = Null

\* a read has just answered unknown for a history of 7 served tickets with 3
\* plausible differences of which only 2 are among the last 6 timestamps
C18_Witness ==
    /\ EtaAnswered
    /\ resp.op = "ticket"
    /\ resp.avgServiceSec = Null
    /\ Cardinality(ServedRows("A")) = 7
    /\ Cardinality(StatedPlausible(ServedTimes("A"))) = 3
    /\ Cardinality(StatedPlausible(Last6(ServedTimes("A")))) = 2

\* sum over the timestamps of S of the differences to the one before in T,
\* each taken in ms (sec = FALSE) or rounded to whole seconds (sec = TRUE)
GapSum(T, S, sec) ==
    LET n == Cardinality(S)
        at(r) == CHOOSE t \in S : Cardinality({u \in S : u < t}) = r - 1
        val(t) == IF sec THEN (GapMs(T, t) + 500) \div 1000 ELSE GapMs(T, t)
        sum[r \in 0..n] == IF r = 0 THEN 0 ELSE sum[r - 1] + val(at(r))
    IN sum[n]

\* C19 as stated: with at least 3 plausible differences (> 5 s and < 21600 s)
\* among the last 6 timestamps the estimator is the mean of all of them,
\* rounded to the nearest second.
C19_Original ==
    \A o \in OrgIds :
        LET T == Last6(ServedTimes(o))
            P == StatedPlausible(T)
        IN Cardinality(P) >= 3 =>
              /\ computeAvgServiceSec(o) # Null
              /\ IsRounded(computeAvgServiceSec(o), GapSum(T, P, FALSE),
                           1000 * Cardinality(P))

\* timestamps of T whose difference to the one before, rounded to whole
\* seconds, is > 5 and < 21600 (5.5 s <= difference < 21599.5 s)
Retained(T) ==
    {t \in T : /\ \E u \in T : u < t
               /\ GapMs(T, t) >= 5500
               /\ GapMs(T, t) < 21599500}

\* the newest 4 of a set of timestamps
Newest4(S) == {t \in S : Cardinality({u \in S : u > t}) < 4}

\* C19 amended: each consecutive difference of the last 6 servedAt timestamps
\* is rounded to whole seconds and retained if and only if the rounded value
\* is > 5 and < 21600; with fewer than 3 retained the estimator is unknown,
\* otherwise it is the mean, rounded to the nearest second, of the newest
\* retained differences, at most 4 of them.
C19_MeanOfNewestFour ==
    \A o \in OrgIds :
        LET T == Last6(ServedTimes(o))
            S == Retained(T)
            N == Newest4(S)
        IN IF Cardinality(S) < 3
             THEN computeAvgServiceSec(o) = Null
             ELSE /\ computeAvgServiceSec(o) # Null
                  /\ IsRounded(computeAvgServiceSec(o), GapSum(T, N, TRUE),
                               Cardinality(N))

\* a read has just answered for a history with 5 retained differences whose
\* mean differs from the mean of the newest 4
C19_Witness ==
    /\ EtaAnswered
    /\ resp.op = "ticket"
    /\ resp.avgServiceSec # Null
    /\ LET T == Last6(ServedTimes("A"))
           S == Retained(T)
       IN /\ Cardinality(S) = 5
          /\ IsRounded(resp.avgServiceSec, GapSum(T, Newest4(S), TRUE), 4)
          /\ ~IsRounded(resp.avgServiceSec, GapSum(T, S, TRUE), 5)

\* the served tickets of an organization have exactly these intervals, in ms,
\* each once
HasIntervals(o, D) ==
    LET T == ServedTimes(o) IN
    /\ Cardinality(T) = Cardinality(D) + 1
    /\ Cardinality(ServedRows(o)) = Cardinality(T)
    /\ {GapMs(T, t) : t \in {x \in T : \E u \in T : u < x}} = D

\* C20 as stated (scenario E): with intervals 40 s, 45 s, 42 s and 3 h the
\* 3-hour interval is discarded and the estimator is 42 s.
C20_Original ==
    HasIntervals("A", {40000, 45000, 42000, 10800000})
        => computeAvgServiceSec("A") = 42

\* C20 amended: with intervals 40 s, 45 s and 42 s the estimator is 42 s;
\* with a fourth interval of 3 hours, which is inside the window (less than
\* 6 h) and is retained, the estimator is the rounded mean of the four, 2732 s.
C20_ScenarioE ==
    /\ HasIntervals("A", {40000, 45000, 42000}) => computeAvgServiceSec("A") = 42
    /\ HasIntervals("A", {40000, 45000, 42000, 10800000}) =>
          /\ computeAvgServiceSec("A") = 2732
          /\ EtaAnswered => resp.avgServiceSec = 2732

\* a read of a ticket one place behind nowServing has just answered for the
\* history of scenario E
C20_Witness ==
    /\ EtaAnswered
    /\ resp.op = "ticket"
    /\ HasIntervals("A", {40000, 45000, 42000, 10800000})
    /\ resp.avgServiceSec = 2732
    /\ resp.remaining = 1
    /\ resp.etaMinutes = 46

\* C21: an Issue whose orgId is not in the catalog is answered with a client
\* error (400) before any mutation: the step changes neither counters nor
\* tickets, no Issue transaction is ever open for such an orgId, and no
\* counter record or ticket of such an orgId ever exists.
C21_InvalidOrgRejected ==
    [][/\ (resp'.op = "take" /\ resp'.code = 400) =>
              /\ org_state' = org_state
              /\ tickets' = tickets
              /\ orgLock' = orgLock
       /\ \A p \in Procs :
              proc'[p].pc \in {"take_select", "take_commit"} =>
                  proc'[p].org \in GeoOrgs
       /\ \A o \in OrgIds \ GeoOrgs :
              /\ ~org_state'[o].exists
              /\ \A i \in 1..Len(tickets') : tickets'[i].org_id # o]_vars

\* an Issue for an unlisted orgId has just been refused while the queue of a
\* listed organization holds tickets
C21_Witness ==
    /\ resp.op = "take"
    /\ resp.code = 400
    /\ ~resp.ok
    /\ Len(tickets) >= 1
    /\ \A o \in OrgIds \ GeoOrgs : ~org_state[o].exists

\* C22: a mutating transaction that fails leaves counters and tickets as they
\* were, and the paired writes of a transaction become visible together:
\* nextNumber changes exactly in the step that adds the ticket carrying its
\* old value, and currentServedNumber is incremented exactly in a step after
\* which the ticket that was now-serving, if it was pending, is served.
C22_AllOrNothing ==
    [][/\ resp'.code = 500 => (org_state' = org_state /\ tickets' = tickets)
       /\ \A o \in OrgIds :
            /\ (org_state'[o] # org_state[o] /\ RowCurrent(o)' = RowCurrent(o)) =>
                  /\ RowNext(o)' = RowNext(o) + 1
                  /\ Len(tickets') = Len(tickets) + 1
                  /\ tickets'[Len(tickets')].org_id = o
                  /\ tickets'[Len(tickets')].number = RowNext(o)
            /\ (Len(tickets') # Len(tickets) /\ tickets'[Len(tickets')].org_id = o) =>
                  /\ Len(tickets') = Len(tickets) + 1
                  /\ org_state'[o].exists
                  /\ RowNext(o)' = RowNext(o) + 1
            /\ RowCurrent(o)' # RowCurrent(o) =>
                  /\ RowCurrent(o)' = RowCurrent(o) + 1
                  /\ RowNext(o)' = RowNext(o)
                  /\ \A i \in OrgTickets(o) :
                        (/\ tickets[i].number = RowCurrent(o) + 1
                         /\ tickets[i].status \in {"waiting", "missed"})
                            => tickets'[i].status = "served"
            /\ \A i \in OrgTickets(o) :
                  (/\ tickets[i].status # "served"
                   /\ tickets'[i].status = "served"
                   /\ tickets[i].number = RowCurrent(o) + 1)
                      => RowCurrent(o)' = RowCurrent(o) + 1]_vars

\* a transaction has just failed in a queue with a served ticket, one
\* pending ticket and another transaction still open
C22_Witness ==
    /\ resp.op = "txn"
    /\ resp.code = 500
    /\ \E i, j \in TicketIds : /\ tickets[i].status = "served"
                              /\ tickets[j].status = "waiting"
    /\ \E p \in Procs : InTxn(p)

\* counter record and tickets of one organization
OrgData(o) == <<org_state[o], [i \in OrgTickets(o) |-> tickets[i]]>>

\* the next statement of the transaction open on connection p can run
CanProceed(p) ==
    ENABLED (\/ TakeSelect(p) \/ TakeCommit(p)
             \/ ServedSelect(p) \/ ServedCommit(p)
             \/ AdminNextNoRow(p) \/ AdminNextEmpty(p) \/ AdminNextBegin(p)
             \/ AdminNextUpdate(p) \/ AdminNextCommit(p))

\* no other connection has a transaction open on organization o
NoOtherOn(p, o) == \A q \in Procs \ {p} : proc[q].org # o

\* C23: operations on different organizations are independent: a step of a
\* transaction on one organization leaves counters and tickets of every
\* other organization unchanged, no step changes those of two organizations,
\* and an operation never waits for a transaction open on another
\* organization: whenever no other transaction is open on its organization
\* its next statement can run.
C23_OrgsIndependent ==
    /\ [][/\ \A o1, o2 \in OrgIds :
                (OrgData(o1)' # OrgData(o1) /\ OrgData(o2)' # OrgData(o2)) => o1 = o2
          /\ \A p \in Procs, o \in OrgIds :
                (InTxn(p) /\ proc'[p] # proc[p] /\ proc[p].org # o)
                    => OrgData(o)' = OrgData(o)]_vars
    /\ [](\A p \in Procs :
            /\ (InTxn(p) /\ NoOtherOn(p, proc[p].org)) => CanProceed(p)
            /\ proc[p].pc = "idle" =>
                  \A o \in GeoOrgs :
                      NoOtherOn(p, o) =>
                          /\ \A n \in 1..MaxTickets : ENABLED Cancel(p, o, n)
                          /\ \A tid \in OrgTickets(o) :
                                tickets[tid].status # "served" => ENABLED ServedBegin(p, tid)
                          /\ ENABLED AdminNextRequest(p, o)
                          /\ Len(tickets) + PendingTakes < MaxTickets
                                => ENABLED TakeBegin(p, o))

\* a transaction on "B" has taken its counter row while a transaction on "A"
\* holds the counter row of "A", both organizations having tickets
C23_Witness ==
    /\ OrgTickets("A") # {}
    /\ OrgTickets("B") # {}
    /\ \E p, q \in Procs :
          /\ proc[p].org = "A"
          /\ proc[q].org = "B"
          /\ orgLock["A"] = p
          /\ orgLock["B"] = q
          /\ proc[p].pc = "nxt_update"
          /\ proc[q].pc = "take_commit"

\* connection p has a statement waiting for a row lock that connection q holds
WaitsFor(p, q) ==
    /\ p # q
    /\ \/ /\ proc[p].pc \in {"take_select", "srv_select", "nxt_begin"}
          /\ orgLock[proc[p].org] = q
       \/ /\ proc[p].pc = "nxt_update"
          /\ \E i \in PendingRows(proc[p].org, proc[p].number) : tktLock[i] = q

\* C24: no operation blocks indefinitely: there is never a circular wait
\* between the ticket row lock and the counter row lock that mark-served and
\* Advance acquire, so that an open transaction can always either run its
\* next statement or is waiting for one that can.
C24_NoCircularWait ==
    \A p, q \in Procs : ~(WaitsFor(p, q) /\ WaitsFor(q, p))

\* C25: the notifier is invoked exactly once each time a ticket becomes the
\* now-serving ticket: sendMessage is never called more often for a ticket
\* than the ticket was promoted, and once every handler has finished it was
\* called for every promotion of a ticket that has a chat_id, also when
\* handlers run concurrently.
C25_NotifiedExactlyOnce ==
    \A i \in 1..Len(queue) :
        queue[i].chat_id # NoChat =>
            /\ queue[i].sent <= queue[i].promoted
            /\ (\A p \in Procs : proc[p].pc = "idle")
                  => queue[i].sent = queue[i].promoted

\* C26: a failed send changes no row: the promoted ticket and the served
\* ticket keep their status, the sequence is untouched and the handler that
\* called the notifier goes on to its successful answer.
C26_NotifyFailureKeepsState ==
    [][\A p \in Procs :
          (/\ proc[p].pc = "ntf_send"
           /\ proc'[p].pc # "ntf_send"
           /\ resp'.op = "notify"
           /\ resp'.code = 500)
          => /\ Len(tickets') = Len(tickets)
             /\ \A i \in 1..Len(tickets) :
                   /\ tickets'[i].id = tickets[i].id
                   /\ tickets'[i].status = tickets[i].status
                   /\ tickets'[i].notified = tickets[i].notified
                   /\ tickets'[i].chat_id = tickets[i].chat_id
             /\ org_state' = org_state
             /\ proc'[p].pc = "respond"
             /\ proc'[p].op = proc[p].op]_vars

\* a send has just failed: the ticket it was for is still NOW and the ticket
\* served before it is still SERVED
C26_Witness ==
    /\ resp.op = "notify"
    /\ resp.code = 500
    /\ \E i, j \in 1..Len(queue) :
          /\ queue[i].id = resp.number
          /\ queue[i].status = "NOW"
          /\ ~queue[i].notified
          /\ queue[j].status = "SERVED"
          /\ queue[j].id < queue[i].id
    /\ \E p \in Procs : proc[p].pc = "respond" /\ proc[p].op = "next"

\* C28: Reset changes every waiting ticket to cancelled, returns how many it
\* cancelled, leaves the other tickets as they are and resets the counters,
\* so that the next Issue returns number 1.
C28_ResetCancels ==
    [][(resp'.op = "clear" /\ resp'.code = 200) =>
          /\ Len(tickets') = Len(tickets)
          /\ \A i \in 1..Len(tickets) :
                /\ tickets'[i].id = tickets[i].id
                /\ tickets[i].status = "WAIT" => tickets'[i].status = "cancelled"
                /\ tickets[i].status = "SERVED" => tickets'[i].status = "SERVED"
          /\ resp'.number = Cardinality({i \in 1..Len(tickets) : tickets[i].status = "WAIT"})
          /\ org_state' = 1]_vars

\* C29: tickets are never physically deleted: every ticket record present
\* before a step is present after it.
C29_NeverDeleted ==
    [][\A i \in 1..Len(tickets) :
          \E j \in 1..Len(tickets') : tickets'[j].id = tickets[i].id]_vars

\* a step of GET /api/ticket or GET /api/ticket/:id
ReadStep ==
    \/ resp'.op \in {"query", "ticket"}
    \/ \E p \in Procs : /\ proc[p].pc = "idle"
                         /\ proc'[p].pc \in {"qry_auto", "rd_auto"}

\* the step appends the first ticket of organization o
FirstIssue(o) ==
    /\ Len(tickets') = Len(tickets) + 1
    /\ tickets'[Len(tickets')].org_id = o
    /\ OrgTickets(o) = {}

\* C30 as stated: an organization's counter record is created only by the
\* first ticket issuance for it; a snapshot or ticket status query, also
\* for an orgId that never had a ticket, creates no counter record and
\* changes no counter.
C30_Original ==
    [][/\ \A o \in OrgIds :
            ~org_state[o].exists /\ org_state'[o].exists => FirstIssue(o)
       /\ ReadStep => org_state' = org_state]_vars

\* C30 amended: a counter record is created by the first ticket issuance
\* for the organization or by a snapshot or ticket status query that names
\* the orgId, and a query creates it with the initial counters (current 0,
\* next 1); a query changes no counter of a record that exists, and the
\* counters a later read returns for any orgId are the ones it would have
\* returned before.
C30_ReadsOnlyEnsure ==
    [][/\ \A o \in OrgIds :
            ~org_state[o].exists /\ org_state'[o].exists
                => \/ FirstIssue(o)
                   \/ /\ ReadStep
                      /\ org_state'[o].next_number = DefaultNextNumber
                      /\ org_state'[o].current_number = DefaultCurrentNumber
       /\ ReadStep =>
            \A o \in OrgIds :
                /\ org_state[o].exists => org_state'[o] = org_state[o]
                /\ org_state'[o].next_number = RowNext(o)
                /\ org_state'[o].current_number = RowCurrent(o)]_vars

\* a snapshot query has created the record of "X", which has no ticket,
\* and the record of "A" holds counters moved by an issuance.
C30_Witness ==
    /\ resp.op = "query"
    /\ org_state["X"].exists
    /\ OrgTickets("X") = {}
    /\ org_state["A"].exists
    /\ org_state["A"].next_number > DefaultNextNumber

\* C31: in every reachable state currentServedNumber <= nextNumber - 1, that
\* is nowServing <= lastNumber + 1, for every organization and under every
\* interleaving of issue, advance, mark-served and cancel, the counters read
\* by an open transaction included.
C31_PointerWithinIssued ==
    /\ \A o \in OrgIds :
          LET nowServing == RowCurrent(o) + 1
              lastNumber == RowNext(o) - 1
          IN /\ RowCurrent(o) <= lastNumber
             /\ nowServing <= lastNumber + 1
    /\ \A p \in Procs :
          proc[p].pc \in {"srv_commit", "nxt_update", "nxt_commit"}
              => proc[p].currentNumber <= proc[p].nextNumber - 1

\* mark-served has just moved the pointer onto the last issued number while
\* an earlier ticket was cancelled and passed by an advance
C31_Witness ==
    /\ resp.op = "served"
    /\ resp.msg = "served"
    /\ RowCurrent("A") = MaxTickets
    /\ RowNext("A") = MaxTickets + 1
    /\ resp.currentNumber = MaxTickets
    /\ \E i \in OrgTickets("A") : tickets[i].status = "cancelled"

\* C32: the serving pointer never passes an unserved ticket: every ticket
\* numbered below nowServing is served or cancelled, and the reconciliation
\* run by a read changes no ticket.
C32_NoUnservedBehindPointer ==
    /\ [](\A i \in TicketIds :
            tickets[i].number < RowCurrent(tickets[i].org_id) + 1
                => tickets[i].status \in {"served", "cancelled"})
    /\ [][\A p \in Procs : ReconcileStep(p) => tickets' = tickets]_vars

\* a read has just answered for a cancelled ticket the pointer has passed,
\* and a served ticket is behind the pointer too
C32_Witness ==
    /\ resp.op = "ticket"
    /\ resp.code = 200
    /\ resp.status = "cancelled"
    /\ resp.number < resp.nowServing
    /\ resp.nowServing = RowCurrent("A") + 1
    /\ \E i \in OrgTickets("A") : /\ tickets[i].status = "served"
                                   /\ tickets[i].number < RowCurrent("A") + 1

\* connection p is inside a /api/ticket/served transaction that writes
MarkingServed(p) == proc[p].pc \in {"srv_select", "srv_commit"}

\* C33: mark-served is idempotent per ticket: a call on a ticket that is
\* already served answers "Already served" and changes no ticket and no
\* counter; a call that commits its writes found the ticket not yet served,
\* a served ticket stays served, and no two open calls write the same
\* ticket, so one ticket is marked served, and can move the pointer through
\* mark-served, at most once.
C33_MarkServedIdempotent ==
    /\ [][/\ (resp'.op = "served" /\ resp'.msg = "Already served")
                => /\ tickets' = tickets
                   /\ org_state' = org_state
          /\ \A p \in Procs :
                ServedCommitted(p) =>
                    \A tid \in proc[p].tids : tickets[tid].status # "served"
          /\ \A i \in TicketIds :
                tickets[i].status = "served" => tickets'[i].status = "served"]_vars
    /\ [](/\ \A p, q \in Procs :
                (p # q /\ MarkingServed(p) /\ MarkingServed(q))
                    => proc[p].tids \cap proc[q].tids = {}
          /\ \A p \in Procs, tid \in TicketIds :
                tickets[tid].status = "served" => ~ENABLED ServedBegin(p, tid))

\* a second mark-served of the ticket in turn has just answered "Already
\* served": the pointer stands on its number, moved once
C33_Witness ==
    /\ resp.op = "served"
    /\ resp.msg = "Already served"
    /\ RowCurrent("A") = 1
    /\ \E i \in OrgTickets("A") : /\ tickets[i].number = 1
                                   /\ tickets[i].status = "served"
                                   /\ tickets[i].served_at
    /\ \E i \in OrgTickets("A") : tickets[i].status = "waiting"

\* C34: in the earlier server variant admin next never moves current_number
\* beyond the highest issued ticket number: current_number <= next_number - 1
\* after any sequence of take and admin next calls.
C34_EarlyPointerBounded ==
    \A o \in OrgIds :
        org_state[o].exists =>
            /\ org_state[o].current_number <= org_state[o].next_number - 1
            /\ org_state[o].current_number <= MaxIssued(o)

\* C35: in the single-queue server at most one ticket has status NOW in
\* every reachable state, under any interleaving of the handlers.
C35_AtMostOneNow ==
    Cardinality({i \in 1..Len(queue) : queue[i].status = "NOW"}) <= 1

\* C36: admin prev called when no WAIT ticket has a smaller id than the NOW
\* ticket is a full rollback: with no other handler running, the statement
\* that demotes the NOW ticket followed by the statement that puts it back
\* leaves every field of every ticket, the notified flag included, as it was
\* before the call.
C36_PrevRollback ==
    [][\A p \in Procs :
          (/\ proc[p].pc = "prev_demote"
           /\ proc'[p].pc = "prev_select"
           /\ proc[p].nowId \in QIds
           /\ QRow(proc[p].nowId).status = "NOW"
           /\ PrevWaitId(proc[p].nowId) = 0
           /\ \A q \in Procs \ {p} : proc[q].pc = "idle")
          => QSetStatus(proc[p].nowId, "NOW")' = tickets]_vars

\* C39: promotion is first-come-first-served: the ticket that admin next,
\* admin serve or user done makes NOW is the WAIT ticket with the smallest
\* id at that moment, and a SERVED ticket never becomes WAIT or NOW again.
C39_FirstComeFirstServed ==
    [][/\ \A p \in Procs :
             (/\ proc[p].pc \in {"next_promote", "serve_promote", "done_promote"}
              /\ proc'[p].pc = "ntf_select")
             => proc[p].id = FirstId("WAIT")
       /\ \A i \in 1..Len(tickets), j \in 1..Len(tickets') :
             (tickets[i].status = "SERVED" /\ tickets'[j].id = tickets[i].id)
                 => tickets'[j].status = "SERVED"]_vars

\* C37: ticket issuance through the bot contact handler keeps at most one
\* active ticket (WAIT or NOW) per chat_id in every reachable state, also
\* when two contact messages of one chat are handled concurrently.
C37_OneActivePerChat ==
    \A chat \in Chats : Cardinality(ActiveIds(chat)) <= 1

\* the statement with which the callback on connection p changes its ticket
CallbackWrites(p) ==
    /\ proc[p].op \in UserCmds
    /\ proc[p].pc \in {"cb_ack", "cb_no", "done_mark", "leave_delete"}
    /\ proc'[p].pc # proc[p].pc
    /\ tickets' # tickets

\* C38: ack, no, done and leave take effect only when the chat that pressed
\* owns the ticket or is the admin chat, for every ticket, those without a
\* chat_id included: a callback of any other chat changes no ticket.
C38_OnlyOwnerOrAdmin ==
    [][\A p \in Procs :
          CallbackWrites(p) =>
              \/ isAdminChat(proc[p].chatId)
              \/ \E i \in 1..Len(queue) : /\ queue[i].id = proc[p].id
                                           /\ queue[i].chat_id = proc[p].chatId]_vars

====
